---- MODULE Spec2Model ----
(***************************************************************************)
(* Verification model of the Gtech product assistant ("NICK").             *)
(*                                                                         *)
(*   scraper (src/unnamed/part_005): productsCache / websiteDataCache /    *)
(*     cacheTimestamp, fetchGtechProducts, getComprehensiveWebsiteData,    *)
(*     searchProducts, fetchProductDetails                                 *)
(*   orchestrator (src/lib/chatbot.ts, second module, lines 440-1872):     *)
(*     conversationContext, processChatMessage,                            *)
(*     generateIntelligentResponse, handleProblemSelection                 *)
(*                                                                         *)
(* JavaScript strings are sequences of one-character strings, so that      *)
(* includes / startsWith / replace / trim / toLowerCase are computed as    *)
(* the code computes them.  Time is counted in minutes: Date.now() is the  *)
(* variable now, and CACHE_DURATION (5 * 60 * 1000 ms) is 5.               *)
(***************************************************************************)
EXTENDS Integers, Sequences, FiniteSets, TLC

(***************************************************************************)
(* Bounds of the model                                                     *)
(***************************************************************************)
\* minutes the clock may advance after start-up
MaxTicks == 5
\* crawls that may complete (each allocates a fresh ProductData object)
MaxCrawls == 2
\* scraper calls that may be suspended at a network await at the same time
MaxCalls == 1
\* product records one crawl may collect before de-duplication
MaxRaw == 2

(***************************************************************************)
(* Program constants                                                       *)
(***************************************************************************)
\* const CACHE_DURATION = 5 * 60 * 1000, in minutes
CACHE_DURATION == 5

(***************************************************************************)
(* JavaScript string primitives                                            *)
(***************************************************************************)
UpperCase == <<"A","B","C","D","E","F","G","H","I","J","K","L","M",
               "N","O","P","Q","R","S","T","U","V","W","X","Y","Z">>
LowerCase == <<"a","b","c","d","e","f","g","h","i","j","k","l","m",
               "n","o","p","q","r","s","t","u","v","w","x","y","z">>
Digits == {"0","1","2","3","4","5","6","7","8","9"}

Range(s) == { s[i] : i \in DOMAIN s }

IsUpper(c) == c \in Range(UpperCase)
IsLower(c) == c \in Range(LowerCase)
IsLetter(c) == IsUpper(c) \/ IsLower(c)
IsDigit(c) == c \in Digits
IsSpace(c) == c \in {" ", "\n", "\t"}

\* String.prototype.toLowerCase, one character
LowerChar(c) ==
  IF IsUpper(c)
  THEN LowerCase[CHOOSE i \in DOMAIN UpperCase : UpperCase[i] = c]
  ELSE c

\* String.prototype.toUpperCase, one character
UpperChar(c) ==
  IF IsLower(c)
  THEN UpperCase[CHOOSE i \in DOMAIN LowerCase : LowerCase[i] = c]
  ELSE c

\* String.prototype.toLowerCase
RECURSIVE toLowerCase(_)
toLowerCase(s) ==
  IF s = <<>> THEN <<>> ELSE <<LowerChar(Head(s))>> \o toLowerCase(Tail(s))

\* String.prototype.toUpperCase
RECURSIVE toUpperCase(_)
toUpperCase(s) ==
  IF s = <<>> THEN <<>> ELSE <<UpperChar(Head(s))>> \o toUpperCase(Tail(s))

\* s.substring(from - 1, to) with 1-based inclusive positions
Slice(s, from, to) == SubSeq(s, from, to)

\* does sub occur in s at 1-based position i
OccursAt(s, sub, i) ==
  /\ i >= 1
  /\ i + Len(sub) - 1 <= Len(s)
  /\ \A k \in 1..Len(sub) : s[i + k - 1] = sub[k]

\* String.prototype.includes
includes(s, sub) == \E i \in 1..(Len(s) + 1) : OccursAt(s, sub, i)

\* String.prototype.startsWith
startsWith(s, prefix) == OccursAt(s, prefix, 1)

\* String.prototype.indexOf, 1-based; 0 when sub does not occur
indexOf(s, sub) ==
  IF includes(s, sub)
  THEN CHOOSE i \in 1..(Len(s) + 1) :
         OccursAt(s, sub, i) /\ \A j \in 1..(i - 1) : ~OccursAt(s, sub, j)
  ELSE 0

\* String.prototype.replace with a string pattern: the first occurrence only
replaceFirst(s, pat, rep) ==
  LET i == indexOf(s, pat)
  IN IF i = 0 THEN s
     ELSE Slice(s, 1, i - 1) \o rep \o Slice(s, i + Len(pat), Len(s))

\* String.prototype.trim
trim(s) ==
  IF \A i \in DOMAIN s : IsSpace(s[i]) THEN <<>>
  ELSE LET first == CHOOSE i \in DOMAIN s :
                      ~IsSpace(s[i]) /\ \A j \in 1..(i - 1) : IsSpace(s[j])
           last == CHOOSE i \in DOMAIN s :
                      ~IsSpace(s[i]) /\ \A j \in (i + 1)..Len(s) : IsSpace(s[j])
       IN Slice(s, first, last)

(***************************************************************************)
(* Scraper: data model (src/unnamed/part_005)                              *)
(***************************************************************************)
\* JavaScript undefined / '' for an optional string field
Undefined == ""

GTECH_BASE_URL == <<"h","t","t","p","s",":","/","/","w","w","w",".","g","t","e","c","h",".","c","o",".","u","k">>

\* an absent url
NoUrl == <<>>
PricePlaceholder == "Check website for current price"

AirRAM == <<"A","i","r","R","A","M">>
HT50 == <<"H","T","5","0">>
Names == {AirRAM, HT50}

\* detail-page address the site lists a product under
PageUrl(n) == IF n = AirRAM THEN GTECH_BASE_URL \o <<"/","a","i","r","r","a","m",".","h","t","m","l">>
              ELSE GTECH_BASE_URL \o <<"/","h","t","5","0",".","h","t","m","l">>

General == <<"G","e","n","e","r","a","l">>
Sale == <<"S","a","l","e">>

\* interface Product, lines 4-13; specs stands for "a specs object is present"
Product(n, p, o, d, c, u, sp) ==
  [name |-> n, price |-> p, originalPrice |-> o, description |-> d,
   category |-> c, url |-> u, specs |-> sp]

\* what extractProductFromElement can push for one product card of the
\* remote site: one price token, or two ("first = now, second = was")
Listings ==
  { Product(AirRAM, "GBP199", "GBP249", <<>>, General, PageUrl(AirRAM), FALSE),
    Product(HT50, "GBP199", Undefined, <<>>, General, PageUrl(HT50), FALSE) }

\* the concatenated pageResults of one crawl, before de-duplication
RECURSIVE SeqsUpTo(_, _)
SeqsUpTo(S, n) ==
  IF n = 0 THEN { <<>> }
  ELSE LET shorter == SeqsUpTo(S, n - 1)
       IN shorter \cup { Append(q, x) : q \in { r \in shorter : Len(r) = n - 1 }, x \in S }

RawCrawls == SeqsUpTo(Listings, MaxRaw)

\* fetchGtechProducts, lines 265-276: the category a crawled record gets on a
\* page that is neither a Black Friday nor a sale page
CrawlCategory(p) ==
  IF p.originalPrice # Undefined
  THEN (IF p.category = General THEN Sale ELSE p.category)
  ELSE p.category

\* fetchGtechProducts, lines 260-288 and 358-360: first-seen record per
\* lower-cased name
RECURSIVE Combine(_, _)
Combine(raw, seen) ==
  IF raw = <<>> THEN <<>>
  ELSE LET p == Head(raw)
           key == toLowerCase(p.name)
       IN IF key \in seen THEN Combine(Tail(raw), seen)
          ELSE <<[p EXCEPT !.category = CrawlCategory(p)]>>
               \o Combine(Tail(raw), seen \cup {key})

\* the default snapshot's categories, line 388: plain labels, never searched
DefaultCategories ==
  << <<"F","l","o","o","r","c","a","r","e">>, <<"P","o","w","e","r"," ","T","o","o","l","s">>, <<"G","a","r","d","e","n"," ","T","o","o","l","s">>, <<"H","a","i","r"," ","C","a","r","e">> >>

\* fetchProductDetails: what a product's detail page can parse to; NoDetails
\* is the null of a failed, timed-out or nameless page
NoDetails == Product(<<>>, Undefined, Undefined, <<>>, General, NoUrl, FALSE)

\* the product a detail page of the remote site is about
DetailName(url) ==
  IF url \in {PageUrl(HT50),
              GTECH_BASE_URL \o <<"/","p","r","o","d","u","c","t","s","/","g","a","r","d","e","n","-","t","o","o","l","s","/","c","o","r","d","l","e","s","s","-","h","e","d","g","e","-","t","r","i","m","m","e","r","s","/","h","t","5","0">>}
  THEN HT50 ELSE AirRAM

\* fetchProductDetails, lines 476-571: the Product a page parses to; was tells
\* whether the page shows a second, struck-through price
Page(url, was) ==
  Product(DetailName(url), "GBP189", IF was THEN "GBP249" ELSE Undefined,
          <<>>, General, url, TRUE)

DetailPages(url) == { Page(url, was) : was \in BOOLEAN }

DetailOutcomes(url) == DetailPages(url) \cup {NoDetails}

\* searchProducts, lines 636-653: the nickname table in insertion order, each
\* path already prefixed with GTECH_BASE_URL (line 657)
productSlugs ==
  << [key |-> <<"a","i","r","r","a","m"," ","3"," ","p","l","u","s">>,
      url |-> GTECH_BASE_URL \o <<"/","p","r","o","d","u","c","t","s","/","f","l","o","o","r","c","a","r","e","/","c","o","r","d","l","e","s","s","-","u","p","r","i","g","h","t","-","v","a","c","u","u","m","s","/","a","i","r","r","a","m","-","3","-","p","l","u","s">>],
     [key |-> <<"a","i","r","r","a","m"," ","3">>,
      url |-> GTECH_BASE_URL \o <<"/","p","r","o","d","u","c","t","s","/","f","l","o","o","r","c","a","r","e","/","c","o","r","d","l","e","s","s","-","u","p","r","i","g","h","t","-","v","a","c","u","u","m","s","/","a","i","r","r","a","m","-","3">>],
     [key |-> <<"a","i","r","r","a","m"," ","2">>,
      url |-> GTECH_BASE_URL \o <<"/","p","r","o","d","u","c","t","s","/","f","l","o","o","r","c","a","r","e","/","c","o","r","d","l","e","s","s","-","u","p","r","i","g","h","t","-","v","a","c","u","u","m","s","/","a","i","r","r","a","m","-","2">>],
     [key |-> <<"a","i","r","r","a","m">>,
      url |-> GTECH_BASE_URL \o <<"/","p","r","o","d","u","c","t","s","/","f","l","o","o","r","c","a","r","e","/","c","o","r","d","l","e","s","s","-","u","p","r","i","g","h","t","-","v","a","c","u","u","m","s">>],
     [key |-> <<"o","r","c","a">>,
      url |-> GTECH_BASE_URL \o <<"/","p","r","o","d","u","c","t","s","/","f","l","o","o","r","c","a","r","e","/","w","e","t","-","a","n","d","-","d","r","y","-","v","a","c","u","u","m","s","/","o","r","c","a">>],
     [key |-> <<"k","o","a","l","a">>,
      url |-> GTECH_BASE_URL \o <<"/","p","r","o","d","u","c","t","s","/","f","l","o","o","r","c","a","r","e","/","w","e","t","-","a","n","d","-","d","r","y","-","v","a","c","u","u","m","s","/","k","o","a","l","a">>],
     [key |-> <<"p","e","n","g","u","i","n">>,
      url |-> GTECH_BASE_URL \o <<"/","p","r","o","d","u","c","t","s","/","f","l","o","o","r","c","a","r","e","/","w","e","t","-","a","n","d","-","d","r","y","-","v","a","c","u","u","m","s","/","p","e","n","g","u","i","n">>],
     [key |-> <<"d","r","y","o","n","i","c">>,
      url |-> GTECH_BASE_URL \o <<"/","p","r","o","d","u","c","t","s","/","h","a","i","r","-","c","a","r","e","/","h","a","i","r","-","d","r","y","e","r","s","/","d","r","y","o","n","i","c">>],
     [key |-> <<"s","t","y","l","e","o","n","i","c">>,
      url |-> GTECH_BASE_URL \o <<"/","p","r","o","d","u","c","t","s","/","h","a","i","r","-","c","a","r","e","/","h","a","i","r","-","s","t","r","a","i","g","h","t","e","n","e","r","s","/","s","t","y","l","e","o","n","i","c">>],
     [key |-> <<"c","o","m","b","i"," ","d","r","i","l","l">>,
      url |-> GTECH_BASE_URL \o <<"/","p","r","o","d","u","c","t","s","/","p","o","w","e","r","-","t","o","o","l","s","/","c","o","r","d","l","e","s","s","-","d","r","i","l","l","s","-","d","r","i","v","e","r","s","/","c","o","m","b","i","-","d","r","i","l","l">>],
     [key |-> <<"l","a","w","n","m","o","w","e","r">>,
      url |-> GTECH_BASE_URL \o <<"/","p","r","o","d","u","c","t","s","/","g","a","r","d","e","n","-","t","o","o","l","s","/","c","o","r","d","l","e","s","s","-","l","a","w","n","-","m","o","w","e","r","s">>],
     [key |-> <<"h","e","d","g","e"," ","t","r","i","m","m","e","r">>,
      url |-> GTECH_BASE_URL \o <<"/","p","r","o","d","u","c","t","s","/","g","a","r","d","e","n","-","t","o","o","l","s","/","c","o","r","d","l","e","s","s","-","h","e","d","g","e","-","t","r","i","m","m","e","r","s">>],
     [key |-> <<"h","t","5","0">>,
      url |-> GTECH_BASE_URL \o <<"/","p","r","o","d","u","c","t","s","/","g","a","r","d","e","n","-","t","o","o","l","s","/","c","o","r","d","l","e","s","s","-","h","e","d","g","e","-","t","r","i","m","m","e","r","s","/","h","t","5","0">>],
     [key |-> <<"l","h","t","5","0">>,
      url |-> GTECH_BASE_URL \o <<"/","l","i","g","h","t","w","e","i","g","h","t","-","h","e","d","g","e","-","t","r","i","m","m","e","r","-","l","h","t","5","0">>],
     [key |-> <<"g","t","5","0">>,
      url |-> GTECH_BASE_URL \o <<"/","p","r","o","d","u","c","t","s","/","g","a","r","d","e","n","-","t","o","o","l","s","/","g","r","a","s","s","-","t","r","i","m","m","e","r","s","/","g","t","5","0">>],
     [key |-> <<"g","r","a","s","s"," ","t","r","i","m","m","e","r">>,
      url |-> GTECH_BASE_URL \o <<"/","p","r","o","d","u","c","t","s","/","g","a","r","d","e","n","-","t","o","o","l","s","/","g","r","a","s","s","-","t","r","i","m","m","e","r","s">>] >>

\* normalizeProductName, lines 584-589
RECURSIVE CollapseSpaces(_)
CollapseSpaces(s) ==
  IF s = <<>> THEN <<>>
  ELSE IF IsSpace(Head(s))
       THEN IF Len(s) > 1 /\ IsSpace(s[2]) THEN CollapseSpaces(Tail(s))
            ELSE <<" ">> \o CollapseSpaces(Tail(s))
       ELSE <<Head(s)>> \o CollapseSpaces(Tail(s))

IsNameChar(c) == IsLower(c) \/ IsDigit(c) \/ IsSpace(c)

normalizeProductName(name) ==
  trim(SelectSeq(CollapseSpaces(toLowerCase(name)), IsNameChar))

\* s.split(/\s+/) without its empty pieces
RECURSIVE Words(_)
Words(s) ==
  IF s = <<>> THEN <<>>
  ELSE IF IsSpace(Head(s)) THEN Words(Tail(s))
       ELSE LET stop == IF \E i \in DOMAIN s : IsSpace(s[i])
                        THEN (CHOOSE i \in DOMAIN s :
                                IsSpace(s[i]) /\ \A j \in 1..(i - 1) : ~IsSpace(s[j]))
                        ELSE Len(s) + 1
            IN <<Slice(s, 1, stop - 1)>> \o Words(Slice(s, stop, Len(s)))

\* matchesProduct, lines 592-607
matchesProduct(query, productName) ==
  LET normalizedQuery == normalizeProductName(query)
      normalizedProduct == normalizeProductName(productName)
      queryWords == SelectSeq(Words(normalizedQuery), LAMBDA w : Len(w) > 2)
  IN \/ includes(normalizedProduct, normalizedQuery)
     \/ includes(normalizedQuery, normalizedProduct)
     \/ /\ Len(queryWords) > 0
        /\ \A i \in DOMAIN queryWords : includes(normalizedProduct, queryWords[i])

\* a character of the regular-expression class \w
IsWordChar(c) == IsLetter(c) \/ IsDigit(c) \/ c = "_"

\* /\b([A-Z]{2,}\d+)\b/gi: the matches are the whole words (maximal runs of \w)
\* made of two or more letters followed by one or more digits
IsCodeWord(w) ==
  \E k \in 2..(Len(w) - 1) :
    /\ \A i \in 1..k : IsLetter(w[i])
    /\ \A i \in (k + 1)..Len(w) : IsDigit(w[i])

RECURSIVE WordRuns(_)
WordRuns(s) ==
  IF s = <<>> THEN <<>>
  ELSE IF ~IsWordChar(Head(s)) THEN WordRuns(Tail(s))
       ELSE LET stop == IF \E i \in DOMAIN s : ~IsWordChar(s[i])
                        THEN (CHOOSE i \in DOMAIN s :
                                ~IsWordChar(s[i]) /\ \A j \in 1..(i - 1) : IsWordChar(s[j]))
                        ELSE Len(s) + 1
            IN <<Slice(s, 1, stop - 1)>> \o WordRuns(Slice(s, stop, Len(s)))

\* lines 613-619 of the scraper and 590-595 of the orchestrator: the codes of a
\* text in order of appearance, upper-cased
productCodes(text) ==
  LET codes == SelectSeq(WordRuns(text), IsCodeWord)
  IN [i \in DOMAIN codes |-> toUpperCase(codes[i])]

\* searchProducts, lines 621-633: the filter predicate.  The records of the
\* model carry no features list and no specs values to search in.
searchMatches(query, product) ==
  LET lowerQuery == toLowerCase(query)
      productNameLower == toLowerCase(product.name)
      codes == productCodes(query)
  IN \/ \E i \in DOMAIN codes : includes(productNameLower, toLowerCase(codes[i]))
     \/ matchesProduct(query, product.name)
     \/ includes(productNameLower, lowerQuery)
     \/ includes(toLowerCase(product.description), lowerQuery)
     \/ includes(toLowerCase(product.category), lowerQuery)

(***************************************************************************)
(* Scraper: state                                                          *)
(***************************************************************************)
VARIABLES
  now,               \* Date.now(), in minutes
  prod,              \* the Product objects allocated so far; an index is a reference
  pd,                \* the ProductData objects allocated so far
  productsCache,     \* reference into pd; 0 is null
  cacheTimestamp,
  websiteDataCache,  \* the cached WebsiteData object; present = FALSE is null
  calls,             \* the scraper calls suspended at a network await
  ev,                \* what the last step did (observation of calls and returns)
  lastCrawl,         \* the last crawl that completed: its object and its time
  conversationContext,   \* the orchestrator's sessions
  reply,                 \* what the orchestrator returned last
  build,                 \* which orchestrator is deployed
  messages,              \* the chat window's messages (Chatbot.tsx, 24-30)
  isLoading,             \* the chat window waits for /api/chat
  rendered,              \* the html the window shows for each message
  request,               \* where one processChatMessage invocation is suspended
  formatting             \* one formatResponseWithLinks call: arguments and result

\* the chat window's state, in the browser
clientVars == <<messages, isLoading, rendered>>

\* the orchestrator's and the window's state, which no scraper step touches
chatVars == <<conversationContext, reply, build, clientVars, request, formatting>>

scraperVars == <<now, prod, pd, productsCache, cacheTimestamp, websiteDataCache,
                 calls, ev, lastCrawl>>

\* Date.now() at start-up: further than CACHE_DURATION from the 0 that
\* cacheTimestamp is initialised with (line 40)
StartTime == CACHE_DURATION

\* the call slots of the running server
Slots == DOMAIN calls

Idle == [pc |-> "idle", fn |-> "none", query |-> <<>>, data |-> 0,
         results |-> <<>>, pending |-> {}, next |-> 0, lost |-> FALSE]

NoWebsiteData == [present |-> FALSE, data |-> 0, products |-> <<>>,
                  sales |-> <<>>, blackFriday |-> <<>>, hasBlackFriday |-> FALSE,
                  crawlTime |-> 0]

EvNone == [kind |-> "none", fn |-> "none", fetch |-> "none", ret |-> 0,
           threw |-> FALSE, cacheBefore |-> 0, stampBefore |-> 0, raw |-> <<>>,
           query |-> <<>>, found |-> <<>>, failed |-> {}]

\* what the chat handler asks searchProducts for
ht50Query == <<"h","t","5","0">>
airramQuery == <<"a","i","r","r","a","m"," ","p","r","i","c","e">>
saleQuery == <<"s","a","l","e">>
Queries == {ht50Query, airramQuery}

ScraperInit ==
  /\ now = StartTime
  /\ prod = <<>>
  /\ pd = <<>>
  /\ productsCache = 0
  /\ cacheTimestamp = 0
  /\ websiteDataCache = NoWebsiteData
  /\ calls = [t \in 1..MaxCalls |-> Idle]
  /\ ev = EvNone
  /\ lastCrawl = [obj |-> 0, at |-> 0]

(***************************************************************************)
(* Scraper: operations                                                     *)
(***************************************************************************)
\* fetchGtechProducts, line 226
\* a cache check that still trusts a snapshot exactly CACHE_DURATION old
CacheValidInclusive == productsCache # 0 /\ now - cacheTimestamp <= CACHE_DURATION

CacheValid == productsCache # 0 /\ now - cacheTimestamp < CACHE_DURATION

\* getComprehensiveWebsiteData, line 399
WebsiteCacheValid ==
  websiteDataCache.present /\ now - cacheTimestamp < CACHE_DURATION

\* a crawl may start while the model still has a ProductData object to give it
Crawling == { t \in Slots : calls[t].pc = "crawl" }
CanCrawl == Len(pd) + Cardinality(Crawling) < MaxCrawls

\* the default snapshot of lines 386-392
DefaultSnapshot ==
  [products |-> <<>>, categories |-> DefaultCategories, crawlTime |-> 0]

\* searchProducts, line 656: the first nickname from position i on that the
\* lower-cased query contains; 0 when there is none
FirstSlugFrom(lowerQuery, i) ==
  LET hits == { j \in i..Len(productSlugs) : includes(lowerQuery, productSlugs[j].key) }
  IN IF hits = {} THEN 0 ELSE CHOOSE j \in hits : \A k \in hits : j <= k

\* processChatMessage, lines 664-667: which searched products get a detail fetch
NeedsDetails(p) ==
  \/ p.price = Undefined
  \/ p.price = PricePlaceholder
  \/ p.price = "Check website"
  \/ (~p.specs /\ p.url # NoUrl /\ p.url # GTECH_BASE_URL)

\* processChatMessage, lines 675-678: Object.assign(product, {...fullDetails,
\* price}) overwrites every field fullDetails carries, undefined ones included
MergeDetails(product, fullDetails) ==
  [fullDetails EXCEPT !.price = IF fullDetails.price # PricePlaceholder
                                THEN fullDetails.price ELSE product.price]

\* processChatMessage, lines 660-685: the search results are handed to the
\* detail backfill; the call is over when no product awaits its details
StartBackfill(c, results, heap) ==
  LET pending == { results[i] : i \in { j \in DOMAIN results : NeedsDetails(heap[results[j]]) } }
  IN IF pending = {} THEN Idle
     ELSE [c EXCEPT !.pc = "backfill", !.results = results, !.pending = pending]

\* searchProducts, lines 621-633: data.products.filter(...), the matching
\* products in the order of the catalogue
SearchResults(query, dataId, snapshots, heap) ==
  SelectSeq(snapshots[dataId].products, LAMBDA r : searchMatches(query, heap[r]))

\* the records a search found, as they are when it returns
Found(fn, query, dataId, snapshots, heap) ==
  LET Records(results) == <<>> \o [i \in DOMAIN results |-> heap[results[i]]]
  IN IF fn = "search" THEN Records(SearchResults(query, dataId, snapshots, heap)) ELSE <<>>

\* searchProducts, lines 611-665, once fetchGtechProducts has returned data
SearchContinue(c, dataId, snapshots, heap) ==
  LET results == SearchResults(c.query, dataId, snapshots, heap)
      k == FirstSlugFrom(toLowerCase(c.query), 1)
  IN IF results # <<>> THEN StartBackfill([c EXCEPT !.data = dataId], results, heap)
     ELSE IF k = 0 THEN Idle
     ELSE [c EXCEPT !.pc = "nickname", !.data = dataId, !.next = k]

\* what the caller of fetchGtechProducts does with the ProductData it got
AfterFetch(c, dataId, snapshots, heap) ==
  CASE c.fn = "fetch" -> Idle
    [] c.fn = "comp" -> [c EXCEPT !.pc = "sales", !.data = dataId]
    [] c.fn = "search" -> SearchContinue(c, dataId, snapshots, heap)

\* getComprehensiveWebsiteData, lines 428-429: products on sale
IsSaleProduct(p) ==
  p.name # <<>> /\ trim(p.name) # <<>> /\ p.originalPrice # Undefined

\* getComprehensiveWebsiteData, lines 437-446: a product tagged as Black
\* Friday by its name, category, description or url
IsBlackFridayTagged(p) ==
  \/ \E field \in {p.name, p.category, p.description} :
       \/ includes(toLowerCase(field), <<"b","l","a","c","k"," ","f","r","i","d","a","y">>)
       \/ includes(toLowerCase(field), <<"b","l","a","c","k","f","r","i","d","a","y">>)
  \/ includes(toLowerCase(p.url), <<"b","l","a","c","k","-","f","r","i","d","a","y">>)
  \/ includes(toLowerCase(p.url), <<"b","l","a","c","k","f","r","i","d","a","y">>)

\* getComprehensiveWebsiteData, lines 431-449: the filter of the Black Friday
\* products
IsBlackFridayProduct(p, hasBlackFriday) ==
  /\ p.name # <<>>
  /\ (IsBlackFridayTagged(p) \/ (hasBlackFriday /\ p.originalPrice # Undefined))

\* how many sale products stand in for the Black Friday products, line 454
BlackFridaySubstitutes == 30

\* getComprehensiveWebsiteData, lines 431-455
BlackFridayProducts(products, saleProducts, hasBlackFriday) ==
  LET Substitute(blackFridayProducts) ==
        IF hasBlackFriday /\ Len(blackFridayProducts) = 0 /\ Len(saleProducts) > 0
        THEN SubSeq(saleProducts, 1, IF Len(saleProducts) < BlackFridaySubstitutes
                                     THEN Len(saleProducts) ELSE BlackFridaySubstitutes)
        ELSE blackFridayProducts
  IN Substitute(SelectSeq(products, LAMBDA r : IsBlackFridayProduct(prod[r], hasBlackFriday)))

\* getComprehensiveWebsiteData, lines 460-470; hasBlackFriday is what
\* checkForSales found on the home page
BuildWebsiteData(dataId, hasBlackFriday) ==
  LET Build(saleProducts) ==
        [present |-> TRUE,
         data |-> dataId,
         products |-> pd[dataId].products,
         sales |-> saleProducts,
         blackFriday |-> BlackFridayProducts(pd[dataId].products, saleProducts, hasBlackFriday),
         hasBlackFriday |-> hasBlackFriday,
         crawlTime |-> pd[dataId].crawlTime]
  IN Build(SelectSeq(pd[dataId].products, LAMBDA r : IsSaleProduct(prod[r])))

\* a catch block that hands out the default snapshot although a cache exists
FailureResultForgetful == IF productsCache # 0 THEN 0 ELSE productsCache

\* fetchGtechProducts, lines 383-392: what a failed crawl returns; 0 stands
\* for a fresh default snapshot
FailureResult == IF productsCache # 0 THEN productsCache ELSE 0

\* Array.from(new Set(...)): the distinct members in order of first appearance
RECURSIVE Unique(_, _)
Unique(s, seen) ==
  IF s = <<>> THEN <<>>
  ELSE IF Head(s) \in seen THEN Unique(Tail(s), seen)
       ELSE <<Head(s)>> \o Unique(Tail(s), seen \cup {Head(s)})

\* the lowest free slot takes the next call
HasFreeSlot == \E t \in Slots : calls[t].pc = "idle"
FreeSlot == CHOOSE t \in Slots :
              calls[t].pc = "idle" /\ \A u \in Slots : calls[u].pc = "idle" => t <= u

NewCall(fn, query) == [Idle EXCEPT !.fn = fn, !.query = query]

\* the first await of a call: fetchGtechProducts returns its cache at once
\* (line 227) or suspends in a crawl (line 239)
EnterFetch(fn, query) ==
  IF CacheValid
  THEN /\ calls' = [calls EXCEPT ![FreeSlot] =
                      AfterFetch(NewCall(fn, query), productsCache, pd, prod)]
       /\ ev' = [EvNone EXCEPT !.kind = IF fn = "fetch" THEN "served" ELSE "call",
                               !.fn = fn, !.fetch = "cached", !.ret = productsCache,
                               !.query = query,
                               !.found = Found(fn, query, productsCache, pd, prod)]
  ELSE /\ CanCrawl
       /\ calls' = [calls EXCEPT ![FreeSlot] = [NewCall(fn, query) EXCEPT !.pc = "crawl"]]
       /\ ev' = [EvNone EXCEPT !.kind = "crawlStart", !.fn = fn, !.fetch = "crawl"]

\* the clock advances
Tick ==
  /\ now < StartTime + MaxTicks
  /\ now' = now + 1
  /\ ev' = [EvNone EXCEPT !.kind = "tick"]
  /\ UNCHANGED <<prod, pd, productsCache, cacheTimestamp, websiteDataCache,
                 calls, lastCrawl>>
  /\ UNCHANGED chatVars

\* fetchGtechProducts() is called, lines 224-239
FetchCall ==
  /\ HasFreeSlot
  /\ EnterFetch("fetch", <<>>)
  /\ UNCHANGED <<now, prod, pd, productsCache, cacheTimestamp, websiteDataCache,
                 lastCrawl>>
  /\ UNCHANGED chatVars

\* getComprehensiveWebsiteData() is called, lines 397-407
CompCall ==
  /\ HasFreeSlot
  /\ IF WebsiteCacheValid
     THEN /\ ev' = [EvNone EXCEPT !.kind = "served", !.fn = "comp"]
          /\ UNCHANGED calls
     ELSE EnterFetch("comp", <<>>)
  /\ UNCHANGED <<now, prod, pd, productsCache, cacheTimestamp, websiteDataCache,
                 lastCrawl>>
  /\ UNCHANGED chatVars

\* processChatMessage calls searchProducts(message), lines 654-657 and 609-610
SearchCall(q) ==
  /\ HasFreeSlot
  /\ EnterFetch("search", q)
  /\ UNCHANGED <<now, prod, pd, productsCache, cacheTimestamp, websiteDataCache,
                 lastCrawl>>
  /\ UNCHANGED chatVars

\* fetchGtechProducts, lines 242-252 and 291: the home page, which is a seed
\* page and is requested once more after the seed pages, and a further seed page
HomePage == GTECH_BASE_URL
SalePage == GTECH_BASE_URL \o <<"/","s","a","l","e">>

\* the seed pages that may be failing during a crawl that goes on to its end:
\* extractProductsFromPage answers [] for them (lines 132-144)
ToleratedFailures == { {}, {SalePage} }

\* a crawl that publishes its snapshot but leaves the timestamp of line 374
\* to a later step
CrawlSucceedTorn(t, raw, failed) ==
  /\ calls[t].pc = "crawl"
  /\ LET items == Combine(raw, {})
         refs == [i \in DOMAIN items |-> Len(prod) + i]
         snapshot == [products |-> refs,
                      categories |-> Unique([i \in DOMAIN items |-> items[i].category], {}),
                      crawlTime |-> now]
         id == Len(pd) + 1
     IN /\ prod' = prod \o items
        /\ pd' = Append(pd, snapshot)
        /\ productsCache' = id
        /\ cacheTimestamp' = cacheTimestamp
        /\ lastCrawl' = [obj |-> id, at |-> now]
        /\ calls' = [calls EXCEPT ![t] = AfterFetch(calls[t], id, pd', prod')]
        /\ ev' = [EvNone EXCEPT !.kind = "crawlDone", !.fn = calls[t].fn, !.ret = id,
                                !.raw = raw, !.failed = failed, !.query = calls[t].query,
                                !.found = Found(calls[t].fn, calls[t].query, id, pd', prod')]
  /\ UNCHANGED <<now, websiteDataCache>>
  /\ UNCHANGED chatVars

\* fetchGtechProducts: the crawl ends well, lines 239-377.  raw is what the
\* pages that answered yielded, failed the seed pages that did not answer;
\* the cache and its timestamp are replaced in one step.
CrawlSucceed(t, raw, failed) ==
  /\ calls[t].pc = "crawl"
  /\ LET items == Combine(raw, {})
         refs == [i \in DOMAIN items |-> Len(prod) + i]
         snapshot == [products |-> refs,
                      categories |-> Unique([i \in DOMAIN items |-> items[i].category], {}),
                      crawlTime |-> now]
         id == Len(pd) + 1
     IN /\ prod' = prod \o items
        /\ pd' = Append(pd, snapshot)
        /\ productsCache' = id
        /\ cacheTimestamp' = now
        /\ lastCrawl' = [obj |-> id, at |-> now]
        /\ calls' = [calls EXCEPT ![t] = AfterFetch(calls[t], id, pd', prod')]
        /\ ev' = [EvNone EXCEPT !.kind = "crawlDone", !.fn = calls[t].fn, !.ret = id,
                                !.raw = raw, !.failed = failed, !.query = calls[t].query,
                                !.found = Found(calls[t].fn, calls[t].query, id, pd', prod')]
  /\ UNCHANGED <<now, websiteDataCache>>
  /\ UNCHANGED chatVars

\* fetchGtechProducts: the home page is failing, so that its request of line
\* 291, which no try block of its own surrounds, throws: lines 378-393
CrawlFail(t) ==
  /\ calls[t].pc = "crawl"
  /\ LET r == FailureResult
         id == IF r = 0 THEN Len(pd) + 1 ELSE r
     IN /\ pd' = IF r = 0 THEN Append(pd, DefaultSnapshot) ELSE pd
        /\ calls' = [calls EXCEPT ![t] = AfterFetch(calls[t], id, pd', prod)]
        /\ ev' = [EvNone EXCEPT !.kind = "crawlFail", !.fn = calls[t].fn, !.ret = id,
                                !.cacheBefore = productsCache,
                                !.stampBefore = cacheTimestamp,
                                !.failed = {HomePage}, !.query = calls[t].query,
                                !.found = Found(calls[t].fn, calls[t].query, id, pd', prod)]
  /\ UNCHANGED <<now, prod, productsCache, cacheTimestamp, websiteDataCache, lastCrawl>>
  /\ UNCHANGED chatVars

\* getComprehensiveWebsiteData: checkForSales has answered, lines 408-472
CompFinish(t, hasBlackFriday) ==
  /\ calls[t].pc = "sales"
  /\ websiteDataCache' = BuildWebsiteData(calls[t].data, hasBlackFriday)
  /\ calls' = [calls EXCEPT ![t] = Idle]
  /\ ev' = [EvNone EXCEPT !.kind = "built", !.fn = "comp"]
  /\ UNCHANGED <<now, prod, pd, productsCache, cacheTimestamp, lastCrawl>>
  /\ UNCHANGED chatVars

\* searchProducts: the detail page of a nickname has answered, lines 655-664.
\* A page that parses yields a fresh Product, referenced by this call only
\* and complete (DetailPages), so the caller's detail filter of lines 664-667
\* skips it and the call is over; a page that does not parse moves the loop
\* to the next nickname the query contains.
NicknameFetch(t) ==
  /\ calls[t].pc = "nickname"
  /\ \E d \in DetailOutcomes(productSlugs[calls[t].next].url) :
       LET k == FirstSlugFrom(toLowerCase(calls[t].query), calls[t].next + 1)
       IN /\ calls' = [calls EXCEPT ![t] =
                         IF d # NoDetails \/ k = 0 THEN Idle
                         ELSE [calls[t] EXCEPT !.next = k]]
          /\ ev' = [EvNone EXCEPT !.kind = "nickname", !.fn = "search",
                                  !.query = calls[t].query,
                                  !.found = IF d # NoDetails THEN <<d>> ELSE <<>>]
  /\ UNCHANGED <<now, prod, pd, productsCache, cacheTimestamp, websiteDataCache,
                 lastCrawl>>
  /\ UNCHANGED chatVars

\* processChatMessage: the detail page of searched product r has answered (or
\* its 5 s race was lost), lines 668-682
Backfill(t, r) ==
  /\ calls[t].pc = "backfill"
  /\ r \in calls[t].pending
  /\ \E d \in DetailOutcomes(prod[r].url) :
       prod' = IF d = NoDetails THEN prod
               ELSE [prod EXCEPT ![r] = MergeDetails(prod[r], d)]
  /\ calls' = [calls EXCEPT ![t] =
                 IF calls[t].pending = {r} THEN Idle
                 ELSE [calls[t] EXCEPT !.pending = calls[t].pending \ {r}]]
  /\ ev' = [EvNone EXCEPT !.kind = "backfill", !.fn = "search", !.ret = r]
  /\ UNCHANGED <<now, pd, productsCache, cacheTimestamp, websiteDataCache, lastCrawl>>
  /\ UNCHANGED chatVars

\* the scraper's entry points and steps, the home page announcing no Black
\* Friday
ScraperNext ==
  \/ Tick
  \/ FetchCall
  \/ CompCall
  \/ \E q \in Queries : SearchCall(q)
  \/ \E t \in Slots, raw \in RawCrawls, failed \in ToleratedFailures :
       CrawlSucceed(t, raw, failed)
  \/ \E t \in Slots : CrawlFail(t)
  \/ \E t \in Slots : CompFinish(t, FALSE)
  \/ \E t \in Slots : NicknameFetch(t)
  \/ \E t \in Slots, r \in DOMAIN prod : Backfill(t, r)

(***************************************************************************)
(* Scraper: the catalogue a crawl builds, under a richer remote site       *)
(***************************************************************************)
\* product cards of a site that lists the AirRAM twice, in two spellings and
\* with one or two price tokens, next to the HT50
CatalogListings ==
  Listings \cup
  { Product(AirRAM, "GBP199", Undefined, <<>>, General, PageUrl(AirRAM), FALSE),
    Product(toUpperCase(AirRAM), "GBP199", "GBP249", <<>>, General, PageUrl(AirRAM), FALSE),
    Product(toUpperCase(AirRAM), "GBP199", Undefined, <<>>, General, PageUrl(AirRAM), FALSE),
    Product(AirRAM, "GBP199", Undefined, <<"l","i","g","h","t","e","r"," ","t","h","a","n"," ","t","h","e"," ","H","T","5","0">>, General, PageUrl(AirRAM), FALSE) }

\* how many products the site has on offer during its sale
SaleSize == 31

\* the cards of the sale, each with a was and a now price
SaleName(i) == <<"S", <<"0","1","2","3","4","5","6","7","8","9">>[(i \div 10) + 1],
                 <<"0","1","2","3","4","5","6","7","8","9">>[(i % 10) + 1]>>
SaleCrawl ==
  <<>> \o [i \in 1..SaleSize |->
            Product(SaleName(i), "GBP199", "GBP249", <<>>, General,
                    GTECH_BASE_URL \o <<"/","p","r","o","d","u","c","t","s">>, FALSE)]

CatalogCrawls == SeqsUpTo(CatalogListings, MaxRaw) \cup {SaleCrawl}

\* the scraper's entry points and steps while the clock stands still, the
\* home page announcing Black Friday or not
CatalogNext ==
  \/ FetchCall
  \/ CompCall
  \/ \E q \in Queries : SearchCall(q)
  \/ \E t \in Slots, raw \in CatalogCrawls, failed \in ToleratedFailures :
       CrawlSucceed(t, raw, failed)
  \/ \E t \in Slots : CrawlFail(t)
  \/ \E t \in Slots, hasBlackFriday \in BOOLEAN : CompFinish(t, hasBlackFriday)
  \/ \E t \in Slots : NicknameFetch(t)
  \/ \E t \in Slots, r \in DOMAIN prod : Backfill(t, r)

(***************************************************************************)
(* Orchestrator: data model (src/lib/chatbot.ts, lines 440-1872)           *)
(***************************************************************************)
SUPPORT_EMAIL == <<"s","u","p","p","o","r","t","@","g","t","e","c","h",".","c","o",".","u","k">>
SUPPORT_PHONE == <<"0","8","0","0","0"," ","3","0","8"," ","7","9","4">>

\* processChatMessage, line 1252: the opening sentence of the apology of the
\* top-level catch
ApologyText == <<"I"," ","a","p","o","l","o","g","i","z","e",","," ","b","u","t"," ","I"," ","e","n","c","o","u","n","t","e","r","e","d"," ","a","n"," ","i","s","s","u","e"," ","p","r","o","c","e","s","s","i","n","g"," ","y","o","u","r"," ","r","e","q","u","e","s","t",".">>

\* a string value: its characters and the addresses it refers to
Text(chars, urls) == [type |-> "string", text |-> chars, urls |-> urls]

\* a value that is no string: a member of Object.prototype
NonString(type) == [type |-> type, text |-> <<>>, urls |-> {}]

\* processChatMessage, line 532
problemKeywords ==
  << <<"n","o","t"," ","w","o","r","k","i","n","g">>, <<"b","r","o","k","e","n">>, <<"n","o","t"," ","s","t","a","r","t","i","n","g">>, <<"n","o","t"," ","t","u","r","n","i","n","g"," ","o","n">>,
     <<"s","t","o","p","p","e","d"," ","w","o","r","k","i","n","g">>, <<"m","a","l","f","u","n","c","t","i","o","n">>, <<"i","s","s","u","e">>, <<"p","r","o","b","l","e","m">>, <<"f","a","u","l","t","y">>,
     <<"d","e","f","e","c","t","i","v","e">> >>

\* processChatMessage, line 533
isProblemReport(message) ==
  \E i \in DOMAIN problemKeywords :
    includes(toLowerCase(message), problemKeywords[i])

actionPrefix == <<"a","c","t","i","o","n",":">>

\* processChatMessage, line 539
IsAction(message) == startsWith(message, actionPrefix)

\* processChatMessage, line 540
ActionOf(message) == trim(replaceFirst(message, actionPrefix, <<>>))

\* handleProblemSelection, lines 1699-1710
isHairCareProduct(modelNumber, product) ==
  LET modelLower == toLowerCase(modelNumber)
      productName == toLowerCase(product.name)
      productCategory == toLowerCase(product.category)
  IN \/ includes(modelLower, <<"d","r","y","o","n","i","c">>)
     \/ includes(modelLower, <<"s","t","y","l","e","o","n","i","c">>)
     \/ includes(modelLower, <<"h","a","i","r">>)
     \/ includes(modelLower, <<"d","r","y","e","r">>)
     \/ includes(modelLower, <<"s","t","r","a","i","g","h","t","e","n","e","r">>)
     \/ includes(productName, <<"h","a","i","r">>)
     \/ includes(productName, <<"d","r","y","e","r">>)
     \/ includes(productName, <<"s","t","r","a","i","g","h","t","e","n","e","r">>)
     \/ includes(productCategory, <<"h","a","i","r">>)

\* handleProblemSelection, lines 1712-1859: the own properties of the guide
\* table, each guide given by its title line; the power guide has a mains
\* variant for hair care products, and three guides cite the shop's address
troubleshootingGuides(hairCare) ==
  << [key |-> <<"t","r","o","u","b","l","e","s","h","o","o","t","_","p","o","w","e","r">>,
      guide |-> IF hairCare
                THEN Text(<<"H","e","r","e"," ","a","r","e"," ","s","t","e","p","s"," ","t","o"," ","t","r","o","u","b","l","e","s","h","o","o","t"," ","p","o","w","e","r"," ","i","s","s","u","e","s",":"," ","(","m","a","i","n","s",")">>, {})
                ELSE Text(<<"H","e","r","e"," ","a","r","e"," ","s","t","e","p","s"," ","t","o"," ","t","r","o","u","b","l","e","s","h","o","o","t"," ","p","o","w","e","r"," ","i","s","s","u","e","s",":">>, {})],
     [key |-> <<"t","r","o","u","b","l","e","s","h","o","o","t","_","c","h","a","r","g","i","n","g">>,
      guide |-> Text(<<"H","e","r","e","'","s"," ","h","o","w"," ","t","o"," ","f","i","x"," ","c","h","a","r","g","i","n","g"," ","p","r","o","b","l","e","m","s",":">>, {})],
     [key |-> <<"t","r","o","u","b","l","e","s","h","o","o","t","_","m","e","c","h","a","n","i","c","a","l">>,
      guide |-> Text(<<"M","e","c","h","a","n","i","c","a","l"," ","i","s","s","u","e","s"," ","t","r","o","u","b","l","e","s","h","o","o","t","i","n","g",":">>, {GTECH_BASE_URL})],
     [key |-> <<"t","r","o","u","b","l","e","s","h","o","o","t","_","b","a","t","t","e","r","y">>,
      guide |-> Text(<<"B","a","t","t","e","r","y"," ","t","r","o","u","b","l","e","s","h","o","o","t","i","n","g"," ","s","t","e","p","s",":">>, {})],
     [key |-> <<"t","r","o","u","b","l","e","s","h","o","o","t","_","b","l","o","c","k","a","g","e">>,
      guide |-> Text(<<"H","o","w"," ","t","o"," ","c","l","e","a","r"," ","b","l","o","c","k","a","g","e","s",":">>, {})],
     [key |-> <<"t","r","o","u","b","l","e","s","h","o","o","t","_","o","t","h","e","r">>,
      guide |-> Text(<<"F","o","r"," ","o","t","h","e","r"," ","i","s","s","u","e","s",","," ","h","e","r","e","'","s"," ","h","o","w"," ","w","e"," ","c","a","n"," ","h","e","l","p",":">>,
                     {GTECH_BASE_URL \o <<"/","s","u","p","p","o","r","t">>})] >>

\* the properties every object literal inherits from Object.prototype: the
\* functions, and the accessor __proto__ that yields the prototype object
ObjectPrototypeFunctions ==
  { <<"c","o","n","s","t","r","u","c","t","o","r">>, <<"h","a","s","O","w","n","P","r","o","p","e","r","t","y">>, <<"i","s","P","r","o","t","o","t","y","p","e","O","f">>,
    <<"p","r","o","p","e","r","t","y","I","s","E","n","u","m","e","r","a","b","l","e">>, <<"t","o","L","o","c","a","l","e","S","t","r","i","n","g">>, <<"t","o","S","t","r","i","n","g">>, <<"v","a","l","u","e","O","f">>,
    <<"_","_","d","e","f","i","n","e","G","e","t","t","e","r","_","_">>, <<"_","_","d","e","f","i","n","e","S","e","t","t","e","r","_","_">>, <<"_","_","l","o","o","k","u","p","G","e","t","t","e","r","_","_">>,
    <<"_","_","l","o","o","k","u","p","S","e","t","t","e","r","_","_">> }

\* troubleshootingGuides[action] of line 1861: own property, else inherited
\* property, else undefined (an absent guide is the empty text here, falsy
\* like undefined)
GuideLookup(action, hairCare) ==
  LET table == troubleshootingGuides(hairCare)
      own == { i \in DOMAIN table : table[i].key = action }
  IN IF own # {} THEN table[CHOOSE i \in own : TRUE].guide
     ELSE IF action \in ObjectPrototypeFunctions THEN NonString("function")
     ELSE IF action = <<"_","_","p","r","o","t","o","_","_">> THEN NonString("object")
     ELSE Text(<<>>, {})

\* JavaScript truthiness of a looked-up value
Truthy(v) == v.type # "string" \/ v.text # <<>>

\* handleProblemSelection, line 1861
SelectGuide(action, hairCare) ==
  IF Truthy(GuideLookup(action, hairCare)) THEN GuideLookup(action, hairCare)
  ELSE GuideLookup(<<"t","r","o","u","b","l","e","s","h","o","o","t","_","o","t","h","e","r">>, hairCare)

(***************************************************************************)
(* Orchestrator: state                                                     *)
(***************************************************************************)
\* conversationContext: session id -> context (lines 508-516); reply: what the
\* last processChatMessage call returned; build: which processChatMessage is
\* deployed
vars == <<now, prod, pd, productsCache, cacheTimestamp, websiteDataCache, calls, ev,
          lastCrawl, conversationContext, reply, build, messages, isLoading, rendered,
          request, formatting>>

\* messages one session may send
MaxMsgs == 2

\* the sessions the Map may hold a context for
SessionIds == DOMAIN conversationContext

\* the two processChatMessage of the repository: src/lib/chatbot.ts and the
\* earlier src/unnamed/part_006, which answers problem reports with options
Builds == {"current", "options"}

\* a session the Map holds no context for; received counts its messages
NoContext ==
  [exists |-> FALSE, lastProduct |-> 0, lastProducts |-> <<>>,
   conversationHistory |-> <<>>, selectedProblem |-> <<>>,
   productModelNumber |-> <<>>, problemOptionsShown |-> FALSE, received |-> 0]

NoReply ==
  [path |-> "none", session |-> "none", message |-> <<>>,
   response |-> Text(<<>>, {}), showOptions |-> FALSE, oracle |-> "none",
   oracleInvoked |-> FALSE, searched |-> FALSE, threw |-> FALSE,
   lastProductBefore |-> 0, lastUrlBefore |-> NoUrl, historyBefore |-> 0,
   oracleRequest |-> <<>>]

\* no formatResponseWithLinks call is recorded
NoFormatting == [response |-> <<>>, products |-> <<>>, lead |-> <<>>, url |-> <<>>,
                 trail |-> <<>>, formatted |-> <<>>, returned |-> FALSE]

Turn(role, content) == [role |-> role, content |-> content]

\* what the remote site does during one request: its pages do not answer,
\* answer with one price, or answer with a price and a struck-through one
Sites == {"down", "plain", "was"}
SiteUp(site) == site # "down"
SiteWas(site) == site = "was"

\* what the oracle does with the primary request: no API key is configured,
\* the 25 s race is lost, the call throws, the completion is empty, or it is a
\* text that refers to no product, names the product, or cites its address
Oracles == {"nokey", "timeout", "throw", "empty", "plain", "names", "cites"}

\* a generation stage that takes an empty completion for an answer
OracleAnswersEvenEmpty(oracle) == oracle \in {"empty", "plain", "names", "cites"}

\* lines 846-849 and 1063-1100: the primary completion yields a text
OracleAnswers(oracle) == oracle \in {"plain", "names", "cites"}

\* the text of a completion about the product subject (0: no product)
Completion(oracle, subject, heap) ==
  IF oracle = "empty" THEN [text |-> <<>>, mentions |-> {}, urls |-> {}]
  ELSE IF subject # 0 /\ oracle = "names"
  THEN [text |-> <<"Y","o","u"," ","c","a","n"," ","o","r","d","e","r"," ","t","h","e"," ">> \o heap[subject].name,
        mentions |-> {heap[subject].name}, urls |-> {}]
  ELSE IF subject # 0 /\ oracle = "cites"
  THEN [text |-> <<"O","r","d","e","r"," ","i","t"," ","h","e","r","e",":"," ">> \o heap[subject].url,
        mentions |-> {}, urls |-> {heap[subject].url}]
  ELSE [text |-> <<"A","d","d"," ","i","t"," ","t","o"," ","y","o","u","r"," ","b","a","s","k","e","t"," ","a","t"," ","t","h","e"," ","c","h","e","c","k","o","u","t",".">>,
        mentions |-> {}, urls |-> {}]

\* processChatMessage, lines 521-528: get or create the context, push the
\* user turn
Opened(ctx, message) ==
  [ctx EXCEPT !.exists = TRUE,
              !.conversationHistory = Append(@, Turn("user", Text(message, {}))),
              !.received = @ + 1]

\* processChatMessage, lines 588-606
AfterProblemReport(ctx, message) ==
  IF isProblemReport(message) /\ ~IsAction(message) /\ productCodes(message) # <<>>
  THEN [ctx EXCEPT !.productModelNumber = productCodes(message)[1]]
  ELSE ctx

\* array.slice(0, n)
Slice0(s, n) == SubSeq(s, 1, IF Len(s) < n THEN Len(s) ELSE n)

\* searchProducts(message) while productsCache is valid, lines 609-665: the
\* cached products that match, else the page of the first nickname in the
\* message, a fresh Product
SearchResult(message, site, heap) ==
  LET found == SelectSeq(pd[productsCache].products,
                         LAMBDA r : searchMatches(message, heap[r]))
      k == FirstSlugFrom(toLowerCase(message), 1)
  IN IF found # <<>> THEN [heap |-> heap, results |-> found]
     ELSE IF k # 0 /\ SiteUp(site)
     THEN [heap |-> Append(heap, Page(productSlugs[k].url, SiteWas(site))),
           results |-> <<Len(heap) + 1>>]
     ELSE [heap |-> heap, results |-> <<>>]

\* processChatMessage, lines 660-685: the detail backfill of the search results
RECURSIVE DetailBackfill(_, _, _)
DetailBackfill(heap, results, site) ==
  IF results = <<>> THEN heap
  ELSE DetailBackfill(
         IF NeedsDetails(heap[Head(results)]) /\ SiteUp(site)
         THEN [heap EXCEPT ![Head(results)] =
                 MergeDetails(@, Page(heap[Head(results)].url, SiteWas(site)))]
         ELSE heap,
         Tail(results), site)

\* processChatMessage, lines 687-691
Remember(ctx, results) ==
  IF Len(results) = 1 THEN [ctx EXCEPT !.lastProduct = results[1]]
  ELSE IF Len(results) > 1 THEN [ctx EXCEPT !.lastProducts = Slice0(results, 10)]
  ELSE ctx

\* processChatMessage, lines 772-773
excludedNames ==
  << <<"s","e","a","r","c","h">>, <<"s","i","g","n"," ","u","p">>, <<"l","o","g","i","n">>, <<"r","e","g","i","s","t","e","r">>, <<"t","r","a","c","k">>, <<"s","u","p","p","o","r","t">>,
     <<"c","o","n","t","a","c","t">>, <<"a","b","o","u","t">>, <<"b","l","o","g">>, <<"f","a","q">>, <<"d","e","l","i","v","e","r","y">>, <<"r","e","t","u","r","n","s">>,
     <<"w","a","r","r","a","n","t","y">>, <<"p","r","i","v","a","c","y">>, <<"t","e","r","m","s">>, <<"c","o","o","k","i","e">>, <<"b","a","s","k","e","t">>, <<"c","a","r","t">>,
     <<"c","h","e","c","k","o","u","t">> >>

excludedPaths ==
  << <<"n","e","w","s","l","e","t","t","e","r">>, <<"s","i","g","n","u","p">>, <<"s","e","a","r","c","h">>, <<"l","o","g","i","n">>, <<"r","e","g","i","s","t","e","r">>, <<"t","r","a","c","k">>,
     <<"s","u","p","p","o","r","t">>, <<"c","o","n","t","a","c","t">>, <<"a","b","o","u","t">>, <<"b","l","o","g">>, <<"f","a","q">>, <<"d","e","l","i","v","e","r","y">>,
     <<"r","e","t","u","r","n","s">>, <<"w","a","r","r","a","n","t","y">>, <<"p","r","i","v","a","c","y">>, <<"t","e","r","m","s">>, <<"c","o","o","k","i","e">> >>

\* /[a-zA-Z]{3,}/.test(name), line 790
HasThreeLetters(name) ==
  \E i \in 1..(Len(name) - 2) :
    IsLetter(name[i]) /\ IsLetter(name[i + 1]) /\ IsLetter(name[i + 2])

\* processChatMessage, lines 776-793
IsValidSaleProduct(p) ==
  /\ trim(p.name) # <<>>
  /\ ~\E i \in DOMAIN excludedNames :
        includes(trim(toLowerCase(p.name)), excludedNames[i])
  /\ p.url # NoUrl =>
       ~\E i \in DOMAIN excludedPaths : includes(toLowerCase(p.url), excludedPaths[i])
  /\ HasThreeLetters(p.name)

\* processChatMessage, line 799
SaleNeedsDetails(p) ==
  /\ p.price = Undefined \/ p.price = PricePlaceholder \/ p.originalPrice = Undefined
  /\ p.url # NoUrl /\ p.url # GTECH_BASE_URL
  /\ ~includes(p.url, <<"n","e","w","s","l","e","t","t","e","r">>) /\ ~includes(p.url, <<"s","i","g","n","u","p">>)

\* processChatMessage, lines 807-811
MergeSaleDetails(product, fullDetails) ==
  [fullDetails EXCEPT
     !.price = IF fullDetails.price # PricePlaceholder
               THEN fullDetails.price ELSE product.price,
     !.originalPrice = IF fullDetails.originalPrice # Undefined
                       THEN fullDetails.originalPrice ELSE product.originalPrice]

\* processChatMessage, lines 770-818: the detail backfill of the sale products
RECURSIVE SaleBackfill(_, _, _)
SaleBackfill(heap, sales, site) ==
  IF sales = <<>> THEN heap
  ELSE SaleBackfill(
         IF /\ IsValidSaleProduct(heap[Head(sales)])
            /\ SaleNeedsDetails(heap[Head(sales)])
            /\ SiteUp(site)
         THEN [heap EXCEPT ![Head(sales)] =
                 MergeSaleDetails(@, Page(heap[Head(sales)].url, SiteWas(site)))]
         ELSE heap,
         Tail(sales), site)

\* the message refers to the last product, lines 1140 and 1585
RefersToThis(message) ==
  includes(toLowerCase(message), <<"t","h","i","s">>) \/ includes(toLowerCase(message), <<"i","t">>)

\* the message refers to the last products, lines 1106 and 1562
RefersToThese(message) ==
  includes(toLowerCase(message), <<"t","h","e","s","e">>) \/ includes(toLowerCase(message), <<"t","h","e","m">>)

\* lines 1563 and 1588
AsksToOrder(message) ==
  \/ includes(toLowerCase(message), <<"o","r","d","e","r">>)
  \/ includes(toLowerCase(message), <<"b","u","y">>)
  \/ includes(toLowerCase(message), <<"p","u","r","c","h","a","s","e">>)

\* processChatMessage, lines 1140-1150: Object.assign(product, fullDetails)
\* on the last product, every field of the page written over it
AssignLastProduct(heap, ctx, message, site) ==
  IF /\ RefersToThis(message)
     /\ ctx.lastProduct # 0
     /\ ~heap[ctx.lastProduct].specs
     /\ heap[ctx.lastProduct].url # GTECH_BASE_URL
     /\ SiteUp(site)
  THEN [heap EXCEPT ![ctx.lastProduct] =
          Page(heap[ctx.lastProduct].url, SiteWas(site))]
  ELSE heap

\* processChatMessage, lines 1193-1198
RememberSale(ctx, message, heap) ==
  LET lower == toLowerCase(message)
      asksSale == \/ includes(lower, <<"s","a","l","e">>) \/ includes(lower, <<"p","r","o","m","o","t","i","o","n">>)
                  \/ includes(lower, <<"d","i","s","c","o","u","n","t">>) \/ includes(lower, <<"d","e","a","l">>)
                  \/ includes(lower, <<"o","f","f","e","r">>)
      saleProducts == IF websiteDataCache.sales # <<>> THEN websiteDataCache.sales
                      ELSE SelectSeq(websiteDataCache.products,
                                     LAMBDA r : heap[r].originalPrice # Undefined)
  IN IF asksSale /\ saleProducts # <<>>
     THEN [ctx EXCEPT !.lastProducts = Slice0(saleProducts, 10)]
     ELSE ctx

\* formatResponseWithLinks, lines 1257-1553, on a completion: a product the
\* text names becomes a link to that product's address; addresses the text
\* cites stay; an empty text becomes the formatter's own notice
formatResponseWithLinks(response, products, heap) ==
  IF response.text = <<>>
  THEN Text(<<"I"," ","a","p","o","l","o","g","i","z","e",","," ","b","u","t"," ","I"," ","e","n","c","o","u","n","t","e","r","e","d"," ","a","n"," ","e","r","r","o","r"," ","f","o","r","m","a","t","t","i","n","g"," ","t","h","e"," ","r","e","s","p","o","n","s","e",".">>, {})
  ELSE Text(response.text,
            response.urls \cup
              { heap[r].url : r \in { q \in Range(products) :
                  /\ heap[q].name # <<>>
                  /\ heap[q].url # NoUrl
                  /\ \E n \in response.mentions :
                       toLowerCase(n) = toLowerCase(heap[q].name) } })

\* getProductByName, lines 670-679, and getRelatedProducts, lines 717-729:
\* the addresses of up to three cached products of the category of the first
\* cached product the name matches.  The nickname map of lines 681-711, tried
\* when no cached product matches, adds no product of the cache.
RelatedUrls(name, heap) ==
  LET cached == pd[productsCache].products
      lowerName == toLowerCase(name)
      hits == SelectSeq(cached, LAMBDA r :
                \/ matchesProduct(name, heap[r].name)
                \/ includes(toLowerCase(heap[r].name), lowerName)
                \/ includes(lowerName, Slice0(toLowerCase(heap[r].name), 10)))
  IN IF hits = <<>> THEN {}
     ELSE LET related == SelectSeq(cached, LAMBDA r :
                           /\ heap[r].name # heap[hits[1]].name
                           /\ heap[r].category = heap[hits[1]].category)
          IN { heap[r].url : r \in Range(Slice0(related, 3)) }

\* the decimal digits of a number in a template literal
RECURSIVE NumberToString(_)
NumberToString(n) ==
  LET digit == <<"0","1","2","3","4","5","6","7","8","9">>[(n % 10) + 1]
  IN IF n < 10 THEN <<digit>> ELSE NumberToString(n \div 10) \o <<digit>>

\* a result of generateIntelligentResponse: the heap and context it leaves
\* and the response it returns
Outcome(heap, ctx, response) == [heap |-> heap, ctx |-> ctx, response |-> response]

\* generateIntelligentResponse, lines 1612-1665: one product was found, and
\* heap holds it after the detail fetch of lines 1618-1627
SingleProductCard(ctx, one, heap) ==
  Outcome(heap, [ctx EXCEPT !.lastProduct = one],
          Text(heap[one].name, {heap[one].url} \cup RelatedUrls(heap[one].name, heap)))

\* generateIntelligentResponse, lines 1663-1667: the names of the listing
RECURSIVE ListedNames(_, _)
ListedNames(results, heap) ==
  IF results = <<>> THEN <<>>
  ELSE <<" ">> \o heap[Head(results)].name \o ListedNames(Tail(results), heap)

\* generateIntelligentResponse, lines 1603-1687: the rules after the sale rule
SearchRules(ctx, site, sr) ==
  IF Len(sr.results) = 1
  THEN SingleProductCard(ctx, sr.results[1],
         IF /\ ~sr.heap[sr.results[1]].specs
            /\ sr.heap[sr.results[1]].url # GTECH_BASE_URL
            /\ SiteUp(site)
         THEN [sr.heap EXCEPT ![sr.results[1]] =
                 Page(sr.heap[sr.results[1]].url, SiteWas(site))]
         ELSE sr.heap)
  ELSE IF Len(sr.results) > 1
  THEN Outcome(sr.heap, [ctx EXCEPT !.lastProducts = Slice0(sr.results, 10)],
               Text(<<"I"," ","f","o","u","n","d"," ">> \o NumberToString(Len(sr.results))
                      \o <<" ","p","r","o","d","u","c","t","s"," ","m","a","t","c","h","i","n","g"," ","y","o","u","r"," ","q","u","e","r","y",":">>
                      \o ListedNames(Slice0(sr.results, 5), sr.heap)
                      \o (IF Len(sr.results) > 5
                          THEN <<".",".",".","a","n","d"," ">> \o NumberToString(Len(sr.results) - 5)
                                 \o <<" ","m","o","r","e"," ","p","r","o","d","u","c","t","s",".">>
                          ELSE <<>>),
                    { sr.heap[r].url : r \in Range(Slice0(sr.results, 5)) }
                      \cup (IF Len(sr.results) > 5 THEN {GTECH_BASE_URL} ELSE {})))
  ELSE Outcome(sr.heap, ctx, Text(<<"I","'","m"," ","h","e","r","e"," ","t","o"," ","h","e","l","p","!">>, {GTECH_BASE_URL}))

\* a responder that tries the sale rule before the ordering rules
FirstRulesSaleFirst(message, lower, ctx, heap, site) ==
  IF \/ includes(lower, <<"s","a","l","e">>) \/ includes(lower, <<"p","r","o","m","o","t","i","o","n">>)
          \/ includes(lower, <<"d","i","s","c","o","u","n","t">>) \/ includes(lower, <<"o","f","f","e","r">>)
  THEN Outcome(heap, ctx,
               Text(<<"Y","o","u"," ","c","a","n"," ","v","i","e","w"," ","a","l","l"," ","o","u","r"," ","c","u","r","r","e","n","t"," ","o","f","f","e","r","s"," ","h","e","r","e",":">>,
                    { GTECH_BASE_URL \o <<"/","o","f","f","e","r","s",".","h","t","m","l">>,
                      GTECH_BASE_URL \o <<"/","n","e","w","s","l","e","t","t","e","r","-","s","i","g","n","u","p">> }))
  ELSE IF RefersToThese(message) /\ ctx.lastProducts # <<>> /\ AsksToOrder(message)
  THEN Outcome(heap, ctx,
               Text(<<"T","o"," ","o","r","d","e","r"," ","t","h","e","s","e"," ","p","r","o","d","u","c","t","s",":">>,
                    { heap[r].url : r \in Range(ctx.lastProducts) }))
  ELSE IF RefersToThis(message) /\ ctx.lastProduct # 0 /\ AsksToOrder(message)
  THEN Outcome(heap, ctx,
               Text(<<"T","o"," ","o","r","d","e","r"," ">> \o heap[ctx.lastProduct].name,
                    { heap[ctx.lastProduct].url }))
  ELSE SearchRules(ctx, site, SearchResult(message, site, heap))

\* generateIntelligentResponse, lines 1555-1601, on the lower-cased message
FirstRules(message, lower, ctx, heap, site) ==
  IF RefersToThese(message) /\ ctx.lastProducts # <<>> /\ AsksToOrder(message)
  THEN Outcome(heap, ctx,
               Text(<<"T","o"," ","o","r","d","e","r"," ","t","h","e","s","e"," ","p","r","o","d","u","c","t","s",":">>,
                    { heap[r].url : r \in Range(ctx.lastProducts) }))
  ELSE IF RefersToThis(message) /\ ctx.lastProduct # 0 /\ AsksToOrder(message)
  THEN Outcome(heap, ctx,
               Text(<<"T","o"," ","o","r","d","e","r"," ">> \o heap[ctx.lastProduct].name,
                    { heap[ctx.lastProduct].url }))
  ELSE IF \/ includes(lower, <<"s","a","l","e">>) \/ includes(lower, <<"p","r","o","m","o","t","i","o","n">>)
          \/ includes(lower, <<"d","i","s","c","o","u","n","t">>) \/ includes(lower, <<"o","f","f","e","r">>)
  THEN Outcome(heap, ctx,
               Text(<<"Y","o","u"," ","c","a","n"," ","v","i","e","w"," ","a","l","l"," ","o","u","r"," ","c","u","r","r","e","n","t"," ","o","f","f","e","r","s"," ","h","e","r","e",":">>,
                    { GTECH_BASE_URL \o <<"/","o","f","f","e","r","s",".","h","t","m","l">>,
                      GTECH_BASE_URL \o <<"/","n","e","w","s","l","e","t","t","e","r","-","s","i","g","n","u","p">> }))
  ELSE SearchRules(ctx, site, SearchResult(message, site, heap))

\* generateIntelligentResponse, lines 1555-1688: the rules in order; it pushes
\* no turn
generateIntelligentResponse(message, ctx, heap, site) ==
  FirstRules(message, toLowerCase(message), ctx, heap, site)

\* context.lastProduct?.name and ?.category of lines 1700-1701
LastProductRecord(ctx, heap) ==
  IF ctx.lastProduct # 0 THEN heap[ctx.lastProduct]
  ELSE Product(<<>>, Undefined, Undefined, <<>>, <<>>, NoUrl, FALSE)

\* handleProblemSelection, lines 1693-1872
handleProblemSelection(action, ctx, heap) ==
  SelectGuide(action, isHairCareProduct(ctx.productModelNumber, LastProductRecord(ctx, heap)))

\* the fields of reply that every path fills alike
ReplyTo(sid, message) ==
  [NoReply EXCEPT
     !.session = sid, !.message = message,
     !.lastProductBefore = conversationContext[sid].lastProduct,
     !.lastUrlBefore = IF conversationContext[sid].lastProduct # 0
                       THEN prod[conversationContext[sid].lastProduct].url ELSE NoUrl,
     !.historyBefore = Len(conversationContext[sid].conversationHistory)]

\* the messages users send in the model
orderThisMessage == <<"h","o","w"," ","d","o"," ","I"," ","o","r","d","e","r"," ","t","h","i","s","?">>
powerAction == <<"a","c","t","i","o","n",":","t","r","o","u","b","l","e","s","h","o","o","t","_","p","o","w","e","r">>
paddedAction == <<"a","c","t","i","o","n",":"," ","t","r","o","u","b","l","e","s","h","o","o","t","_","b","a","t","t","e","r","y"," ">>
unknownAction == <<"a","c","t","i","o","n",":","r","e","f","u","n","d">>
constructorAction == <<"a","c","t","i","o","n",":","c","o","n","s","t","r","u","c","t","o","r">>
brokenReport == <<"m","y"," ","H","T","5","0"," ","i","s"," ","b","r","o","k","e","n">>
offerQuestion == <<"a","n","y"," ","o","f","f","e","r","s","?">>
greeting == <<"h","e","l","l","o">>
Messages ==
  { orderThisMessage, powerAction, paddedAction, unknownAction, constructorAction,
    brokenReport, airramQuery, offerQuestion, greeting }

\* array.slice(-n)
SliceLast(s, n) == SubSeq(s, IF Len(s) > n THEN Len(s) - n + 1 ELSE 1, Len(s))

\* the system message of the primary completion request, lines 1069-1072
SystemTurn == Turn("system", Text(<<"s","y","s","t","e","m","P","r","o","m","p","t">>, {}))

\* processChatMessage, lines 1066-1083: the messages of the primary
\* completion request, built from the history the message was pushed to at
\* line 528
OracleRequest(history, message) ==
  <<SystemTurn>> \o SliceLast(history, 10) \o <<Turn("user", Text(message, {}))>>

\* processChatMessage returns: the context, the heap and the response it
\* leaves behind
Return(sid, message, ctx, heap, path, response, oracle) ==
  /\ conversationContext' = [conversationContext EXCEPT ![sid] = ctx]
  /\ prod' = heap
  /\ reply' = [ReplyTo(sid, message) EXCEPT
                 !.path = path, !.response = response, !.oracle = oracle,
                 !.oracleInvoked = oracle \notin {"none", "nokey"},
                 !.oracleRequest =
                    IF oracle \notin {"none", "nokey"}
                    THEN OracleRequest(
                           Opened(conversationContext[sid], message).conversationHistory,
                           message)
                    ELSE <<>>,
                 !.searched = path # "guide"]

\* processChatMessage, lines 539-585: an option was selected
SelectProblem(sid, message, action, opened) ==
  Return(sid, message,
         [opened EXCEPT
            !.selectedProblem = action,
            !.conversationHistory =
               Append(@, Turn("assistant", handleProblemSelection(action, opened, prod)))],
         prod, "guide", handleProblemSelection(action, opened, prod), "none")

\* processChatMessage, lines 1202-1226: format, push the assistant turn, return
FormatAndReturn(sid, message, oracle, ctx, heap, formatted) ==
  Return(sid, message,
         [ctx EXCEPT !.conversationHistory = Append(@, Turn("assistant", formatted))],
         heap, "oracle", formatted, oracle)

\* processChatMessage, lines 1102-1226: the oracle has answered
AnswerWithOracle(sid, message, oracle, ctx, heap) ==
  FormatAndReturn(sid, message, oracle, RememberSale(ctx, message, heap), heap,
                  formatResponseWithLinks(
                    Completion(oracle, ctx.lastProduct, heap),
                    websiteDataCache.products \o websiteDataCache.sales, heap))

\* processChatMessage, lines 1234-1243: the fallback responder answers
AnswerWithFallback(sid, message, oracle, outcome) ==
  Return(sid, message, outcome.ctx, outcome.heap, "fallback", outcome.response, oracle)

\* processChatMessage, lines 697-1243: the context and heap after the search
\* and the two backfills
Generate(sid, message, oracle, site, ctx, heap) ==
  IF OracleAnswers(oracle)
  THEN AnswerWithOracle(sid, message, oracle, ctx,
                        AssignLastProduct(heap, ctx, message, site))
  ELSE AnswerWithFallback(sid, message, oracle,
                          generateIntelligentResponse(message, ctx, heap, site))

\* processChatMessage, lines 651-695 and 770-818
AfterSearch(sid, message, oracle, site, ctx, sr) ==
  Generate(sid, message, oracle, site, Remember(ctx, sr.results),
           SaleBackfill(DetailBackfill(sr.heap, sr.results, site),
                        websiteDataCache.sales, site))

\* processChatMessage of src/lib/chatbot.ts, lines 518-1255, one call from
\* entry to return.  The scraper's caches are valid throughout, so
\* getComprehensiveWebsiteData and fetchGtechProducts are served from them.
\* No statement of lines 520-1243 outside the inner handlers throws for a
\* string message, so the catch of lines 1244-1254 is never entered.
ProcessChatMessage(sid, message, oracle, site) ==
  /\ build = "current"
  /\ CacheValid /\ WebsiteCacheValid
  /\ conversationContext[sid].received < MaxMsgs
  /\ IF IsAction(message)
     THEN SelectProblem(sid, message, ActionOf(message),
                        Opened(conversationContext[sid], message))
     ELSE AfterSearch(sid, message, oracle, site,
                      AfterProblemReport(Opened(conversationContext[sid], message), message),
                      SearchResult(message, site, prod))
  /\ UNCHANGED <<now, pd, productsCache, cacheTimestamp, websiteDataCache, calls, ev,
                 lastCrawl, build>>
  /\ UNCHANGED <<clientVars, request, formatting>>

\* a problem-report flow that any message but an option selection enters
OffersOptionsToAll(message) == ~IsAction(message)

\* src/unnamed/part_006, line 120: the message enters the problem-report flow
OffersOptions(message) == isProblemReport(message) /\ ~IsAction(message)

\* processChatMessage of src/unnamed/part_006, lines 50-65 and 119-193, on a
\* problem report: the options are returned at once
ProcessProblemReport(sid, message) ==
  /\ build = "options"
  /\ conversationContext[sid].received < MaxMsgs
  /\ OffersOptions(message)
  /\ conversationContext' =
       [conversationContext EXCEPT ![sid] =
          [Opened(conversationContext[sid], message) EXCEPT !.problemOptionsShown = TRUE]]
  /\ reply' = [ReplyTo(sid, message) EXCEPT
                 !.path = "options",
                 !.response = Text(<<"I","'","m"," ","s","o","r","r","y"," ","t","o"," ","h","e","a","r"," ","t","h","a","t"," ","y","o","u","'","r","e"," ","e","x","p","e","r","i","e","n","c","i","n","g"," ","a","n"," ","i","s","s","u","e",".">>, {}),
                 !.showOptions = TRUE]
  /\ UNCHANGED <<now, prod, pd, productsCache, cacheTimestamp, websiteDataCache, calls,
                 ev, lastCrawl, build>>
  /\ UNCHANGED <<clientVars, request, formatting>>

ChatNext ==
  \/ \E sid \in SessionIds, message \in Messages, oracle \in Oracles, site \in Sites :
       ProcessChatMessage(sid, message, oracle, site)
  \/ \E sid \in SessionIds, message \in Messages : ProcessProblemReport(sid, message)

(***************************************************************************)
(* Chat window: regular expressions of convertLinksToHTML                  *)
(* (src/components/Chatbot.tsx).  A pattern is a sequence of items; the    *)
(* matcher backtracks in the order of the JavaScript engine.               *)
(***************************************************************************)
\* one character of a class, of its complement
One(cs) == [k |-> "set", cs |-> cs, neg |-> FALSE]
Not(cs) == [k |-> "set", cs |-> cs, neg |-> TRUE]
\* x* x+ (min 0 or 1), greedy or lazy, x one character
Star(x, min, lazy) == [k |-> "star", x |-> x, min |-> min, lazy |-> lazy]
\* (a|b): alts is a sequence of patterns
Alt(alts) == [k |-> "alt", alts |-> alts]
\* (body){min,}
Rep(body, min) == [k |-> "rep", body |-> body, min |-> min]
Bol == [k |-> "bol"]
Eol == [k |-> "eol"]
\* the boundary of a capture group: group n opens at mark 2n-1, closes at 2n
Mark(id) == [k |-> "mark", id |-> id]
NotAhead(p) == [k |-> "notahead", p |-> p]
NotBehind(p) == [k |-> "notbehind", p |-> p]
At(pos) == [k |-> "at", pos |-> pos]
\* a literal text; with the i flag
Lit(str) == <<>> \o [i \in DOMAIN str |-> One({str[i]})]
LitI(str) == <<>> \o [i \in DOMAIN str |-> One({LowerChar(str[i]), UpperChar(str[i])})]
\* the classes \s, \d and .
Space == One({" ", "\n", "\t"})
Digit == One(Digits)
Dot == Not({"\n"})

NoCaps == <<0, 0, 0, 0>>
NoMatch == [ok |-> FALSE, start |-> 0, end |-> 0, caps |-> NoCaps]
OrElse(r, other) == IF r.ok THEN r ELSE other

MinOf(S) == CHOOSE j \in S : \A k \in S : j <= k
MaxOf(S) == CHOOSE j \in S : \A k \in S : j >= k

\* how many characters from position i on belong to the class x
RunLen(x, s, i) ==
  LET Upto(stops) == IF stops = {} THEN Len(s) + 1 - i ELSE MinOf(stops) - i
  IN Upto({ j \in i..Len(s) : (s[j] \in x.cs) = x.neg })

\* the first way, in backtracking order, in which items matches s from
\* position i on: end is the position after the match
RECURSIVE Match(_, _, _, _)
RECURSIVE TryAlts(_, _, _, _, _)
\* a quantified class takes the first count, in its order of preference,
\* from which the rest of the pattern matches
TryCounts(x, rest, s, i, caps, counts) ==
  IF counts = {} THEN NoMatch
  ELSE Match(rest, s, i + (IF x.lazy THEN MinOf(counts) ELSE MaxOf(counts)), caps)

Match(items, s, i, caps) ==
  IF items = <<>> THEN [ok |-> TRUE, start |-> 0, end |-> i, caps |-> caps]
  ELSE LET x == Head(items)
           rest == Tail(items)
       IN CASE x.k = "set" ->
                 IF i <= Len(s) /\ ((s[i] \in x.cs) # x.neg)
                 THEN Match(rest, s, i + 1, caps) ELSE NoMatch
            [] x.k = "star" ->
                 TryCounts(x, rest, s, i, caps,
                           { c \in x.min..RunLen(x.x, s, i) : Match(rest, s, i + c, caps).ok })
            [] x.k = "alt" -> TryAlts(x.alts, rest, s, i, caps)
            [] x.k = "rep" ->
                 OrElse(Match(x.body \o <<Rep(x.body, IF x.min > 0 THEN x.min - 1 ELSE 0)>> \o rest,
                              s, i, caps),
                        IF x.min = 0 THEN Match(rest, s, i, caps) ELSE NoMatch)
            [] x.k = "bol" -> IF i = 1 THEN Match(rest, s, i, caps) ELSE NoMatch
            [] x.k = "eol" -> IF i = Len(s) + 1 THEN Match(rest, s, i, caps) ELSE NoMatch
            [] x.k = "at" -> IF i = x.pos THEN Match(rest, s, i, caps) ELSE NoMatch
            [] x.k = "mark" -> Match(rest, s, i, [caps EXCEPT ![x.id] = i])
            [] x.k = "notahead" ->
                 IF Match(x.p, s, i, caps).ok THEN NoMatch ELSE Match(rest, s, i, caps)
            [] x.k = "notbehind" ->
                 LET Unless(r) ==
                       IF r.ok /\ \E j \in 1..i : Match(x.p \o <<At(i)>>, s, j, caps).ok
                       THEN NoMatch ELSE r
                 IN Unless(Match(rest, s, i, caps))

TryAlts(alts, rest, s, i, caps) ==
  IF alts = <<>> THEN NoMatch
  ELSE OrElse(Match(Head(alts) \o rest, s, i, caps),
              TryAlts(Tail(alts), rest, s, i, caps))

\* a pattern that begins with a character class matches at j only if the
\* character at j is of the class
FirstFits(pat, s, j) ==
  pat = <<>> \/ pat[1].k # "set" \/ (j <= Len(s) /\ ((s[j] \in pat[1].cs) # pat[1].neg))

\* all matches of a g-flagged pattern from position i on, left to right,
\* none overlapping; starts are the positions the pattern matches at
RECURSIVE MatchesIn(_, _, _, _)
MatchesAfter(pat, s, starts, m) ==
  <<m>> \o MatchesIn(pat, s, starts, IF m.end > m.start THEN m.end ELSE m.end + 1)
MatchesIn(pat, s, starts, i) ==
  LET At1(j) == MatchesAfter(pat, s, starts, [Match(pat, s, j, NoCaps) EXCEPT !.start = j])
      Later(later) == IF later = {} THEN <<>> ELSE At1(MinOf(later))
  IN Later({ j \in starts : j >= i })
MatchesFrom(pat, s, i) ==
  MatchesIn(pat, s, { j \in 1..(Len(s) + 1) : FirstFits(pat, s, j) /\ Match(pat, s, j, NoCaps).ok }, i)

\* capture group n of match m
Group(s, m, n) == Slice(s, m.caps[2 * n - 1], m.caps[2 * n] - 1)

\* s with each match ms[k] replaced by reps[k]
RECURSIVE Splice(_, _, _, _, _)
Splice(s, ms, reps, k, pos) ==
  IF k > Len(ms) THEN Slice(s, pos, Len(s))
  ELSE Slice(s, pos, ms[k].start - 1) \o reps[k] \o Splice(s, ms, reps, k + 1, ms[k].end)

\* String.prototype.replace with a g-flagged pattern and a replacement made
\* of a text before, capture group g (0: none) and a text after
ReplaceMatches(s, ms, before, g, after) ==
  Splice(s, ms, [k \in DOMAIN ms |->
                   before \o (IF g = 0 THEN <<>> ELSE Group(s, ms[k], g)) \o after], 1, 1)
ReplaceAll(s, pat, before, g, after) ==
  ReplaceMatches(s, MatchesFrom(pat, s, 1), before, g, after)

(***************************************************************************)
(* Chat window: convertLinksToHTML (src/components/Chatbot.tsx, 63-452)    *)
(***************************************************************************)
\* escapeHtml, lines 67-76
RECURSIVE escapeHtml(_)
escapeHtml(str) ==
  IF str = <<>> THEN <<>>
  ELSE IF Len(str) = 1
  THEN (CASE str[1] = "&" -> <<"&","a","m","p",";">>
          [] str[1] = "<" -> <<"&","l","t",";">>
          [] str[1] = ">" -> <<"&","g","t",";">>
          [] str[1] = "\"" -> <<"&","q","u","o","t",";">>
          [] str[1] = "'" -> <<"&","#","0","3","9",";">>
          [] OTHER -> str)
  ELSE escapeHtml(Slice(str, 1, Len(str) \div 2))
       \o escapeHtml(Slice(str, Len(str) \div 2 + 1, Len(str)))

\* `__${kind}${index}__`
Placeholder(kind, index) == <<"_","_">> \o kind \o NumberToString(index) \o <<"_","_">>

\* String.prototype.indexOf(sub, from - 1), 1-based; 0 when there is none
indexOfFrom(s, sub, from) ==
  LET First(hits) == IF hits = {} THEN 0 ELSE MinOf(hits)
  IN First({ j \in from..(Len(s) - Len(sub) + 1) : OccursAt(s, sub, j) })

\* String.prototype.lastIndexOf on the first upto characters, 1-based; 0 when
\* there is none
lastIndexOf(s, sub, upto) ==
  LET Last(hits) == IF hits = {} THEN 0 ELSE MaxOf(hits)
  IN Last({ j \in 1..(upto - Len(sub) + 1) : OccursAt(s, sub, j) })

Max(a, b) == IF a >= b THEN a ELSE b

\* the replacement patterns of String.prototype.replace: $$, $&, $` and $'
RECURSIVE ExpandDollar(_, _, _, _)
ExpandDollar(rep, before, matched, after) ==
  LET At1(d) ==
        Slice(rep, 1, d - 1)
        \o (CASE rep[d + 1] = "$" -> <<"$">>
              [] rep[d + 1] = "&" -> matched
              [] rep[d + 1] = "`" -> before
              [] rep[d + 1] = "'" -> after)
        \o ExpandDollar(Slice(rep, d + 2, Len(rep)), before, matched, after)
      First(specials) == IF specials = {} THEN rep ELSE At1(MinOf(specials))
  IN First({ j \in 1..(Len(rep) - 1) : rep[j] = "$" /\ rep[j + 1] \in {"$", "&", "`", "'"} })

\* html.replace(placeholder, linkHtml): the first occurrence of a text
ReplaceText(s, pat, rep) ==
  LET i == indexOfFrom(s, pat, 1)
      before == Slice(s, 1, i - 1)
      after == Slice(s, i + Len(pat), Len(s))
  IN IF i = 0 THEN s
     ELSE before \o ExpandDollar(rep, before, pat, after) \o after

\* TRUE once html is evaluated: each step of the conversion starts from the
\* evaluated result of the step before it, as the statements of the code do
Done(html) == Len(html) >= 0

\* saved.forEach(({placeholder, html}) => html = html.replace(placeholder, html))
RECURSIVE Restore(_, _)
Restore(html, saved) ==
  IF saved = <<>> \/ ~Done(html) THEN html
  ELSE Restore(ReplaceText(html, saved[1].placeholder, saved[1].html), Tail(saved))

\* [)\].,!?;:]
Punctuation == One({")", "]", ".", ",", "!", "?", ";", ":"})

\* how many characters at the end of s are punctuation
RECURSIVE TrailingPunctuation(_, _)
TrailingPunctuation(s, n) ==
  IF n < Len(s) /\ s[Len(s) - n] \in Punctuation.cs
  THEN TrailingPunctuation(s, n + 1) ELSE n

\* lines 94-120 and 396-418: the complete anchor tags with an href from
\* position from on, left to right
RECURSIVE AnchorMatches(_, _)
AnchorMatches(s, from) ==
  LET openTagIndex == indexOfFrom(s, <<"<","a">>, from)
      tagEndIndex == indexOfFrom(s, <<">">>, openTagIndex)
      closeTagIndex == indexOfFrom(s, <<"<","/","a",">">>, tagEndIndex)
  IN IF from > Len(s) \/ openTagIndex = 0 THEN <<>>
     ELSE IF tagEndIndex = 0 THEN <<>>
     ELSE IF closeTagIndex = 0 THEN <<>>
     ELSE IF includes(Slice(s, openTagIndex, closeTagIndex + 3), <<"h","r","e","f">>)
     THEN <<[NoMatch EXCEPT !.ok = TRUE, !.start = openTagIndex, !.end = closeTagIndex + 4]>>
          \o AnchorMatches(s, closeTagIndex + 4)
     ELSE AnchorMatches(s, tagEndIndex + 1)

Reverse(seq) == <<>> \o [k \in DOMAIN seq |-> seq[Len(seq) + 1 - k]]

\* the array of {placeholder, html} a protection pass fills, in push order
Numbered(kind, htmls) ==
  <<>> \o [k \in DOMAIN htmls |-> [placeholder |-> Placeholder(kind, k - 1), html |-> htmls[k]]]

\* s with the matches replaced by numbered placeholders; a pass that
\* replaces from end to start numbers the last match 0
Hide(s, ms, kind, fromEnd) ==
  Splice(s, ms, [k \in DOMAIN ms |->
                   Placeholder(kind, IF fromEnd THEN Len(ms) - k ELSE k - 1)], 1, 1)

\* lines 122-132 (kind EXISTING_LINK_) and 420-425 (kind VALID_TAG_)
ProtectAnchors(text, kind) ==
  LET Go(ms) ==
        [text |-> Hide(text, ms, kind, TRUE),
         saved |-> Numbered(kind, Reverse([k \in DOMAIN ms |->
                                             Slice(text, ms[k].start, ms[k].end - 1)]))]
  IN Go(AnchorMatches(text, 1))

\* (p)?
Opt(p) == Alt(<<p, <<>>>>)

\* /<br\s*\/?>/gi
BreakTag == LitI(<<"<","b","r">>) \o <<Star(Space, 0, FALSE), Opt(Lit(<<"/">>))>> \o Lit(<<">">>)

\* lines 134-145
ProtectBreaks(text) ==
  LET Go(ms) ==
        [text |-> Hide(text, ms, <<"B","R","_","T","A","G","_">>, FALSE),
         saved |-> Numbered(<<"B","R","_","T","A","G","_">>, [k \in DOMAIN ms |-> <<"<","b","r",">">>])]
  IN Go(MatchesFrom(BreakTag, text, 1))

\* /\*\*(.+?)\*\*/g
BoldMarkdown == Lit(<<"*","*">>) \o <<Mark(1), Star(Dot, 1, TRUE), Mark(2)>> \o Lit(<<"*","*">>)

\* /<strong>(.*?)<\/strong>/gi
StrongTag ==
  LitI(<<"<","s","t","r","o","n","g",">">>) \o <<Mark(1), Star(Dot, 0, TRUE), Mark(2)>> \o LitI(<<"<","/","s","t","r","o","n","g",">">>)

\* lines 147-159: markdown bold becomes <strong>, every <strong> is protected
ProtectBold(text) ==
  LET Go(bold, ms) ==
        [text |-> Hide(bold, ms, <<"B","O","L","D","_","T","A","G","_">>, FALSE),
         saved |-> Numbered(<<"B","O","L","D","_","T","A","G","_">>,
                            [k \in DOMAIN ms |->
                               <<"<","s","t","r","o","n","g",">">> \o Group(bold, ms[k], 1) \o <<"<","/","s","t","r","o","n","g",">">>])]
      Find(bold) == Go(bold, MatchesFrom(StrongTag, bold, 1))
  IN Find(ReplaceAll(text, BoldMarkdown, <<"<","s","t","r","o","n","g",">">>, 1, <<"<","/","s","t","r","o","n","g",">">>))

\* lines 170-206: the markdown links [text](url) with an http(s) url
RECURSIVE MarkdownMatches(_, _)
MarkdownMatches(s, from) ==
  LET openBracket == indexOfFrom(s, <<"[">>, from)
      closeBracket == indexOfFrom(s, <<"]">>, openBracket + 1)
      openParen == indexOfFrom(s, <<"(">>, closeBracket + 1)
      closeParen == indexOfFrom(s, <<")">>, openParen + 1)
      inner == trim(Slice(s, openParen + 1, closeParen - 1))
      url == Slice(inner, 1, Len(inner) - TrailingPunctuation(inner, 0))
  IN IF from > Len(s) \/ openBracket = 0 THEN <<>>
     ELSE IF closeBracket = 0 THEN <<>>
     ELSE IF openParen = 0 \/ openParen # closeBracket + 1
     THEN MarkdownMatches(s, openBracket + 1)
     ELSE IF closeParen = 0 THEN <<>>
     ELSE IF startsWith(url, <<"h","t","t","p",":","/","/">>) \/ startsWith(url, <<"h","t","t","p","s",":","/","/">>)
     THEN <<[ok |-> TRUE, start |-> openBracket, end |-> closeParen + 1,
             caps |-> NoCaps, url |-> url]>>
          \o MarkdownMatches(s, closeParen + 1)
     ELSE MarkdownMatches(s, openBracket + 1)

\* the anchor the component writes, lines 216 and 326
LinkHtml(href, label) ==
  <<"<","a"," ","h","r","e","f","=","\"">> \o href
  \o <<"\""," ","t","a","r","g","e","t","=","\"","_","b","l","a","n","k","\""," ","r","e","l","=","\"","n","o","o","p","e","n","e","r"," ","n","o","r","e","f","e","r","r","e","r","\""," ","s","t","y","l","e","=","\"","c","o","l","o","r",":"," ","#","0","0","7","b","f","f",";"," ","t","e","x","t","-","d","e","c","o","r","a","t","i","o","n",":"," ","u","n","d","e","r","l","i","n","e",";","\"",">">>
  \o label \o <<"<","/","a",">">>

\* lines 208-221
ProtectMarkdown(text) ==
  LET Go(ms) ==
        [text |-> Hide(text, ms, <<"M","A","R","K","D","O","W","N","_","L","I","N","K","_">>, TRUE),
         saved |-> Numbered(<<"M","A","R","K","D","O","W","N","_","L","I","N","K","_">>,
                            Reverse([k \in DOMAIN ms |->
                                       LinkHtml(escapeHtml(trim(ms[k].url)),
                                                escapeHtml(trim(ms[k].url)))]))]
  IN Go(MarkdownMatches(text, 1))

\* __KIND_\d+__
PlaceholderOf(kind) == Lit(<<"_","_">> \o kind) \o <<Star(Digit, 1, FALSE)>> \o Lit(<<"_","_">>)

\* /__(?:EXISTING|MARKDOWN)_LINK_\d+__|__BR_TAG_\d+__|__BOLD_TAG_\d+__/g
placeholderRegex ==
  <<Alt(<<Lit(<<"_","_">>) \o <<Alt(<<Lit(<<"E","X","I","S","T","I","N","G">>), Lit(<<"M","A","R","K","D","O","W","N">>)>>)>>
            \o Lit(<<"_","L","I","N","K","_">>) \o <<Star(Digit, 1, FALSE)>> \o Lit(<<"_","_">>),
          PlaceholderOf(<<"B","R","_","T","A","G","_">>),
          PlaceholderOf(<<"B","O","L","D","_","T","A","G","_">>)>>)>>

\* lines 223-250: the text between the placeholders is escaped
RECURSIVE EscapeOutside(_, _, _, _)
EscapeOutside(s, ms, k, pos) ==
  IF k > Len(ms) THEN escapeHtml(Slice(s, pos, Len(s)))
  ELSE escapeHtml(Slice(s, pos, ms[k].start - 1))
       \o Slice(s, ms[k].start, ms[k].end - 1)
       \o EscapeOutside(s, ms, k + 1, ms[k].end)

\* /https?:\/\/[^\s<>"']+/g
urlPattern ==
  Lit(<<"h","t","t","p">>) \o <<Opt(Lit(<<"s">>))>> \o Lit(<<":","/","/">>)
  \o <<Star(Not({" ", "\n", "\t", "<", ">", "\"", "'"}), 1, FALSE)>>

\* String.prototype.replace with a g-flagged pattern of one literal text
ReplaceLiteral(s, text, rep) == ReplaceAll(s, Lit(text), rep, 0, <<>>)

\* lines 262-328: what one match of urlPattern is replaced by; a match the
\* loop skips stays as it is
UrlReplacement(html, m) ==
  LET matched == Slice(html, m.start, m.end - 1)
      upto == m.start - 1
      lastOpenTag == Max(lastIndexOf(html, <<"<","a">>, upto), lastIndexOf(html, <<"&","l","t",";","a">>, upto))
      lastCloseTag == Max(lastIndexOf(html, <<"<","/","a",">">>, upto),
                          lastIndexOf(html, <<"&","l","t",";","/","a","&","g","t",";">>, upto))
      lastPlaceholder == Max(lastIndexOf(html, <<"_","_","E","X","I","S","T","I","N","G","_","L","I","N","K","_">>, upto),
                             lastIndexOf(html, <<"_","_","V","A","L","I","D","_","T","A","G","_">>, upto))
      cut == IF matched[Len(matched)] = "/" THEN 0
             ELSE IF TrailingPunctuation(matched, 0) = Len(matched) THEN Len(matched) - 1
             ELSE TrailingPunctuation(matched, 0)
      cleanUrl == Slice(matched, 1, Len(matched) - cut)
      trailing == Slice(matched, Len(matched) - cut + 1, Len(matched))
      unescapedUrl ==
        ReplaceLiteral(ReplaceLiteral(ReplaceLiteral(ReplaceLiteral(ReplaceLiteral(
          cleanUrl, <<"&","a","m","p",";">>, <<"&">>), <<"&","l","t",";">>, <<"<">>), <<"&","g","t",";">>, <<">">>),
          <<"&","q","u","o","t",";">>, <<"\"">>), <<"&","#","0","3","9",";">>, <<"'">>)
      escapedHref ==
        ReplaceLiteral(ReplaceLiteral(unescapedUrl, <<"\"">>, <<"&","q","u","o","t",";">>),
                       <<"'">>, <<"&","#","0","3","9",";">>)
  IN IF \/ includes(matched, <<"_","_","L","I","N","K","_">>) \/ includes(matched, <<"_","_","M","A","R","K","D","O","W","N","_">>)
        \/ includes(matched, <<"_","_","E","X","I","S","T","I","N","G","_">>) \/ includes(matched, <<"_","_","V","A","L","I","D","_","T","A","G","_">>)
     THEN matched
     ELSE IF lastOpenTag > lastCloseTag THEN matched
     ELSE IF lastPlaceholder > 0 /\ lastPlaceholder > lastCloseTag THEN matched
     ELSE LinkHtml(escapedHref, cleanUrl) \o trailing

\* lines 252-337: the bare URLs become anchors
LinkBareUrls(html) ==
  LET Go(ms) == Splice(html, ms, [k \in DOMAIN ms |-> UrlReplacement(html, ms[k])], 1, 1)
  IN Go(MatchesFrom(urlPattern, html, 1))

\* html = html.replace(pattern, replacement), one rule after the other
RECURSIVE ReplaceEach(_, _)
ReplaceEach(html, rules) ==
  IF rules = <<>> \/ ~Done(html) THEN html
  ELSE ReplaceEach(ReplaceAll(html, rules[1].pat, rules[1].before, rules[1].g, rules[1].after),
                   Tail(rules))

Rule(pat, before, g, after) == [pat |-> pat, before |-> before, g |-> g, after |-> after]
Spaces == Star(Space, 0, FALSE)

\* lines 349-356: steps 6.5 and 6.6
LeftoverLinkRules ==
  << Rule(PlaceholderOf(<<"E","X","I","S","T","I","N","G","_","L","I","N","K","_">>), <<>>, 0, <<>>),
     Rule(<<Mark(1), Not({"<"}), Mark(2)>> \o Lit(<<"]","(">>) \o urlPattern \o Lit(<<")">>), <<>>, 1, <<>>),
     Rule(<<Mark(1), Not({"<"}), Mark(2)>> \o Lit(<<"[">>) \o <<Star(Not({"]"}), 0, FALSE)>>
            \o Lit(<<"]","(">>), <<>>, 1, <<>>) >>

\* lines 371-382: steps 8.5 and 8.6
LeftoverRules ==
  << Rule(PlaceholderOf(<<"B","O","L","D","_","T","A","G","_">>), <<>>, 0, <<>>),
     Rule(<<Spaces>> \o Lit(<<"-">>) \o <<Spaces, Mark(1), Alt(<<Lit(<<"<","b","r",">">>), <<Eol>>>>), Mark(2)>>,
          <<>>, 1, <<>>),
     Rule(<<Mark(1), Alt(<<Lit(<<"<","b","r",">">>), <<Bol>>>>), Mark(2), Spaces>> \o Lit(<<"-">>) \o <<Spaces>>,
          <<>>, 1, <<>>),
     Rule(<<Rep(Lit(<<"<","b","r",">">>) \o <<Spaces>>, 3)>>, <<"<","b","r",">","<","b","r",">">>, 0, <<>>),
     Rule(Lit(<<"_","_">>) \o <<Star(One(Range(UpperCase) \cup {"_"}), 1, FALSE)>> \o Lit(<<"_">>)
            \o <<Star(Digit, 1, FALSE)>> \o Lit(<<"_","_">>), <<>>, 0, <<>>) >>

\* lines 427-438: step 8.7 on the text outside the protected anchors
FragmentRules ==
  << Rule(<<Spaces>> \o LitI(<<"t","a","r","g","e","t","=","\"","_","b","l","a","n","k","\"">>) \o <<Spaces>>, <<>>, 0, <<>>),
     Rule(<<Spaces>> \o LitI(<<"r","e","l","=","\"","n","o","o","p","e","n","e","r"," ","n","o","r","e","f","e","r","r","e","r","\"">>) \o <<Spaces>>, <<>>, 0, <<>>),
     Rule(<<Spaces>> \o LitI(<<"s","t","y","l","e","=","\"">>) \o <<Star(Not({"\""}), 0, FALSE)>> \o Lit(<<"\"">>)
            \o <<Spaces>>, <<>>, 0, <<>>),
     Rule(<<Spaces>> \o Lit(<<"\"",">">>) \o <<Spaces>> \o LitI(<<"V","i","e","w"," ","P","r","o","d","u","c","t">>), <<>>, 0, <<>>),
     Rule(<<Spaces>> \o Lit(<<"\"",">">>) \o <<Spaces>> \o LitI(<<"V","i","e","w">>) \o <<Spaces>>, <<>>, 0, <<>>),
     Rule(<<NotBehind(PlaceholderOf(<<"V","A","L","I","D","_","T","A","G","_">>)), Spaces>> \o Lit(<<"\"",">">>)
            \o <<Spaces, NotAhead(Lit(<<"_","_","V","A","L","I","D","_","T","A","G","_">>))>>, <<" ">>, 0, <<>>),
     Rule(LitI(<<"<","a">>) \o <<Spaces>> \o Lit(<<">">>), <<>>, 0, <<>>),
     Rule(Lit(<<"<","/","a",">">>) \o <<Spaces>> \o Lit(<<"(">>), <<" ","(">>, 0, <<>>),
     Rule(Lit(<<")">>) \o <<Spaces>> \o Lit(<<"<","/","a",">">>), <<")">>, 0, <<>>) >>

\* lines 384-443: step 8.7
CleanFragments(html) ==
  LET Clean(text, saved) == IF Done(text) THEN Restore(ReplaceEach(text, FragmentRules), saved)
                            ELSE text
      Go(valid) == Clean(valid.text, valid.saved)
  IN Go(ProtectAnchors(html, <<"V","A","L","I","D","_","T","A","G","_">>))

\* convertLinksToHTML, lines 63-449
convertLinksToHTML(text) ==
  LET Step9(html) == ReplaceLiteral(html, <<"\n">>, <<"<","b","r",">">>)
      Step87(html) == IF Done(html) THEN Step9(CleanFragments(html)) ELSE html
      Step85(html) == IF Done(html) THEN Step87(ReplaceEach(html, LeftoverRules)) ELSE html
      Step8(html, bold) == IF Done(html) THEN Step85(Restore(html, bold.saved)) ELSE html
      Step75(html, bold) ==
        IF Done(html) THEN Step8(ReplaceAll(html, PlaceholderOf(<<"B","R","_","T","A","G","_">>), <<>>, 0, <<>>), bold)
        ELSE html
      Step7(html, breaks, bold) ==
        IF Done(html) THEN Step75(Restore(html, breaks.saved), bold) ELSE html
      Step65(html, breaks, bold) ==
        IF Done(html) THEN Step7(ReplaceEach(html, LeftoverLinkRules), breaks, bold) ELSE html
      Step6(html, links, breaks, bold) ==
        IF Done(html) THEN Step65(Restore(html, links.saved), breaks, bold) ELSE html
      Step5(html, links, breaks, bold, markdown) ==
        IF Done(html) THEN Step6(Restore(html, markdown.saved), links, breaks, bold) ELSE html
      Step4(html, links, breaks, bold, markdown) ==
        IF Done(html) THEN Step5(LinkBareUrls(html), links, breaks, bold, markdown) ELSE html
      Step3(links, breaks, bold, markdown) ==
        IF Done(markdown.text)
        THEN Step4(EscapeOutside(markdown.text, MatchesFrom(placeholderRegex, markdown.text, 1), 1, 1),
                   links, breaks, bold, markdown)
        ELSE text
      Step2(links, breaks, bold) ==
        IF Done(bold.text) THEN Step3(links, breaks, bold, ProtectMarkdown(bold.text)) ELSE text
      Bold(links, breaks) ==
        IF Done(breaks.text) THEN Step2(links, breaks, ProtectBold(breaks.text)) ELSE text
      Breaks(links) ==
        IF Done(links.text) THEN Bold(links, ProtectBreaks(links.text)) ELSE text
  IN IF text = <<>> THEN <<>> ELSE Breaks(ProtectAnchors(text, <<"E","X","I","S","T","I","N","G","_","L","I","N","K","_">>))

(***************************************************************************)
(* Chat window: messages and their rendering (src/components/Chatbot.tsx)  *)
(***************************************************************************)
\* how many questions the window sends
MaxExchanges == 1

\* lines 24-30: the greeting the window opens with
Greeting ==
  <<"H","i","!"," ","I","'","m"," ","N","I","C","K",","," ","y","o","u","r"," ","i","n","t","e","l","l","i","g","e","n","t","\n","G","t","e","c","h"," ","p","r","o","d","u","c","t"," ","a","s","s","i","s","t","a","n","t","."," ","I"," ","c","a","n"," ","h","e","l","p","\n","y","o","u"," ","w","i","t","h"," ","p","r","o","d","u","c","t"," ","i","n","f","o","r","m","a","t","i","o","n",",","\n","p","r","i","c","i","n","g",","," ","s","a","l","e","s",","," ","o","r","d","e","r","i","n","g",","," ","a","n","d"," ","m","o","r","e",".","\n","A","l","l"," ","i","n","f","o","r","m","a","t","i","o","n"," ","i","s"," ","f","e","t","c","h","e","d"," ","l","i","v","e"," ","f","r","o","m","\n","o","u","r"," ","w","e","b","s","i","t","e","."," ","W","h","a","t"," ","w","o","u","l","d"," ","y","o","u"," ","l","i","k","e","\n","t","o"," ","k","n","o","w","?">>

\* lines 483 and 491: the contents shown when a reply has no text, when the
\* request fails
NoResponseText == <<"S","o","r","r","y",","," ","I"," ","e","n","c","o","u","n","t","e","r","e","d"," ","a","n"," ","e","r","r","o","r","."," ","P","l","e","a","s","e"," ","t","r","y"," ","a","g","a","i","n",".">>
RequestErrorText == <<"S","o","r","r","y",","," ","I"," ","e","n","c","o","u","n","t","e","r","e","d"," ","a","n"," ","e","r","r","o","r","."," ","P","l","e","a","s","e"," ","t","r","y"," ","a","g","a","i","n"," ","l","a","t","e","r",".">>

Message(role, content) == [role |-> role, content |-> content]

\* line 600: every message is shown as convertLinksToHTML(message.content);
\* the html of the messages shown before is the same at every rendering
Render(message) == convertLinksToHTML(message.content)

\* pieces of message text: plain text, bare and quoted URLs, markdown bold
\* and links, anchors, line breaks and list items
Fragments ==
  { <<"T","o","m"," ","&"," ","C","o"," ">>,
    <<"1"," ","<"," ","2"," ">>,
    <<"s","e","e"," ","h","t","t","p",":","/","/","x",".","i","o","/","a","-","b","."," ">>,
    <<"\"","h","t","t","p",":","/","/","x",".","i","o","/","a","\""," ">>,
    <<"*","*","b","o","l","d","*","*"," ">>,
    <<"*","*","<","i",">","x","<","/","i",">","*","*"," ">>,
    <<"<","s","t","r","o","n","g",">","h","i","<","/","s","t","r","o","n","g",">"," ">>,
    <<"<","a"," ","h","r","e","f","=","\"","/","p","r","o","d","u","c","t","s","/","p","o","w","e","r","-","t","o","o","l","s","\"",">","T","o","o","l","s","<","/","a",">"," ">>,
    <<"<","a"," ","h","r","e","f","=","\"","h","t","t","p",":","/","/","x",".","i","o","/","a","\"",">","h","t","t","p",":","/","/","x",".","i","o","/","a","<","/","a",">"," ">>,
    <<"*","*","<","a"," ","h","r","e","f","=","\"","/","p","\"",">","T","<","/","a",">","*","*"," ">>,
    <<"[","s","i","t","e","]","(","h","t","t","p",":","/","/","x",".","i","o","/","a",".",")"," ">>,
    <<"<","b","r","/",">">>,
    <<"-"," ","i","t","e","m","\n">> }

\* the texts /api/chat answers with: up to two pieces, or nothing
Responses == {<<>>} \cup Fragments \cup { a \o b : a, b \in Fragments }

\* what the user types
Typed == { <<" ","h","i"," ">>, <<"1"," ","<"," ","2">>, <<" "," ">> }

\* the window before it is mounted, as the server sees it
WindowClosed ==
  /\ messages = <<>>
  /\ isLoading = FALSE
  /\ rendered = <<>>

\* the window once mounted
WindowOpen ==
  /\ messages = <<Message("assistant", Greeting)>>
  /\ isLoading = FALSE
  /\ rendered = <<Render(Message("assistant", Greeting))>>

\* handleSend, lines 454-466: the question is shown and the request sent
handleSend(input) ==
  /\ ~(trim(input) = <<>> \/ isLoading)
  /\ Len(messages) < 1 + 2 * MaxExchanges
  /\ messages' = Append(messages, Message("user", trim(input)))
  /\ isLoading' = TRUE
  /\ rendered' = Append(rendered, Render(messages'[Len(messages')]))
  /\ UNCHANGED <<scraperVars, conversationContext, reply, build, request, formatting>>

\* handleSend, lines 468-487 and 496-499: the answer of /api/chat is shown
ReplyArrives(response) ==
  /\ isLoading
  /\ messages' = Append(messages,
                        Message("assistant",
                                IF response = <<>> THEN NoResponseText ELSE response))
  /\ isLoading' = FALSE
  /\ rendered' = Append(rendered, Render(messages'[Len(messages')]))
  /\ UNCHANGED <<scraperVars, conversationContext, reply, build, request, formatting>>

\* handleSend, lines 488-499: the request failed
RequestFails ==
  /\ isLoading
  /\ messages' = Append(messages, Message("assistant", RequestErrorText))
  /\ isLoading' = FALSE
  /\ rendered' = Append(rendered, Render(messages'[Len(messages')]))
  /\ UNCHANGED <<scraperVars, conversationContext, reply, build, request, formatting>>

WindowNext ==
  \/ \E input \in Typed : handleSend(input)
  \/ \E response \in Responses : ReplyArrives(response)
  \/ RequestFails

(***************************************************************************)
(* Orchestrator: the suspension points of one request                      *)
(* (src/lib/chatbot.ts, lines 518-1255 and 1555-1688)                      *)
(***************************************************************************)
\* how many keys of productNameMap (part_005, lines 683-701) a product name
\* may contain
MaxNameKeys == 2

\* no request is being processed
NoRequest == [pc |-> "idle", query |-> <<>>, sales |-> FALSE, after |-> "none",
              slug |-> 0, left |-> 0, waited |-> 0, timedOut |-> {}, answered |-> FALSE]

\* the awaits of processChatMessage that a Promise.race guards with a
\* setTimeout, with the seconds of the timer
RaceTimer(point) ==
  CASE point = "actionData" -> 10      \* line 546
    [] point = "siteData" -> 10        \* line 611
    [] point = "search" -> 5           \* line 654
    [] point = "backfill" -> 5         \* line 669
    [] point = "saleDetail" -> 3       \* line 801
    [] point = "oracle" -> 25          \* line 1065
    [] point = "enhanceThese" -> 20    \* line 1114
    [] point = "enhanceThis" -> 20     \* line 1167
    [] OTHER -> 0

\* the timer that bounds an await: the setTimeout of its Promise.race, or the
\* timeout option of the axios request it waits for (part_005, lines 52, 181,
\* 295 and 482)
TimerOf(point) ==
  CASE point = "pronounDetail" -> 15   \* chatbot.ts 1145, part_005 482
    [] point = "crawlSales" -> 15      \* part_005 239 and 181
    [] point = "crawlPages" -> 20      \* part_005 255 and 52
    [] point = "crawlHome" -> 20       \* part_005 291 and 295
    [] point = "fbNickname" -> 15      \* part_005 658 and 482
    [] point = "fbDetail" -> 15        \* chatbot.ts 1620, part_005 482
    [] point = "relFetch" -> 15        \* part_005 705 and 482
    [] OTHER -> RaceTimer(point)

Goto(r, point) == [r EXCEPT !.pc = point]

\* fetchGtechProducts, lines 224-239: a fresh cache answers at once, else the
\* call suspends in checkForSales; after names the code that awaits the call
Fetching(r, after) == [r EXCEPT !.pc = "crawlSales", !.after = after]

\* getRelatedProducts, lines 717-729, after getProductByName has answered
RelList(r) == {Goto(r, "returned"), Fetching(r, "relList")}

\* getProductByName, lines 670-715, after fetchGtechProducts: the product is
\* found, or the pages of the keys its name contains are fetched in turn
RelName(r) ==
  RelList(r) \cup {Goto(r, "returned")}
  \cup { [r EXCEPT !.pc = "relFetch", !.left = n] : n \in 1..MaxNameKeys }

Related(r) == RelName(r) \cup {Fetching(r, "relName")}

\* searchProducts, lines 655-664: the page of the next nickname from position
\* i on that the query contains, or the end of the loop
Nickname(r, i) ==
  LET k == FirstSlugFrom(r.query, i)
  IN IF k = 0 THEN {Goto(r, "returned")}
     ELSE {[r EXCEPT !.pc = "fbNickname", !.slug = k]}

\* generateIntelligentResponse, lines 1612-1680: one product (its details,
\* then its related products), several products, or none
FbProducts(r) == {Goto(r, "fbDetail"), Goto(r, "returned")} \cup Related(r)

\* searchProducts after fetchGtechProducts, lines 611-667
FbFilter(r) == FbProducts(r) \cup Nickname(r, 1)

\* generateIntelligentResponse, lines 1555-1610: a rule that answers at once,
\* or searchProducts
Fallback(r) == {Goto(r, "returned"), Fetching(r, "fbFilter")} \cup FbFilter(r)

\* processChatMessage, lines 846-849: with a Generation Oracle or without
Generation(r) == {Goto(r, "oracle")} \cup Fallback(r)

\* processChatMessage, lines 770-797: sale products that miss a price
AfterSearching(r) ==
  (IF r.sales THEN {Goto(r, "saleDetail")} ELSE {}) \cup Generation(r)

\* processChatMessage, lines 1139-1187: the pronoun branch
PronounBranch(r) == {Goto(r, "pronounDetail"), Goto(r, "enhanceThis"), Goto(r, "returned")}

\* where the request goes when the await it is suspended at settles: answered
\* says that the upstream answered, its negation that the timer fired
Settle(r, answered) ==
  CASE r.pc = "actionData" -> {Goto(r, "returned")}
    [] r.pc = "siteData" ->
         IF answered THEN { [r EXCEPT !.pc = "search", !.sales = s] : s \in BOOLEAN }
         ELSE {Goto(r, "search")}
    [] r.pc = "search" ->
         (IF answered THEN {Goto(r, "backfill")} ELSE {}) \cup AfterSearching(r)
    [] r.pc = "backfill" -> AfterSearching(r)
    [] r.pc = "saleDetail" -> Generation(r)
    [] r.pc = "oracle" ->
         IF answered
         THEN {Goto(r, "enhanceThese")} \cup PronounBranch(r) \cup Fallback(r)
         ELSE Fallback(r)
    [] r.pc = "enhanceThese" -> PronounBranch(r)
    [] r.pc = "pronounDetail" -> {Goto(r, "enhanceThis")}
    [] r.pc = "enhanceThis" -> {Goto(r, "returned")}
    [] r.pc = "crawlSales" -> {Goto(r, "crawlPages")}
    [] r.pc = "crawlPages" -> {Goto(r, "crawlHome")}
    [] r.pc = "crawlHome" ->
         CASE r.after = "fbFilter" -> FbFilter(r)
           [] r.after = "relName" -> RelName(r)
           [] OTHER -> {Goto(r, "returned")}
    [] r.pc = "fbNickname" ->
         (IF answered THEN FbProducts(r) ELSE {}) \cup Nickname(r, r.slug + 1)
    [] r.pc = "fbDetail" -> Related(r)
    [] r.pc = "relFetch" ->
         (IF answered THEN RelList(r) ELSE {})
         \cup (IF r.left > 1 THEN {[r EXCEPT !.left = r.left - 1]} ELSE {Goto(r, "returned")})
    [] OTHER -> {}

Suspended == request.pc \notin {"idle", "returned"}

\* what the messages of the requests ask searchProducts for
airram3Query == <<"a","i","r","r","a","m"," ","3">>
RequestQueries == Queries \cup {airram3Query}

\* processChatMessage is called, lines 518-546 and 608-611
Receive(query, isAction) ==
  /\ ~Suspended
  /\ request' = [NoRequest EXCEPT !.pc = IF isAction THEN "actionData" ELSE "siteData",
                                  !.query = query]
  /\ UNCHANGED <<scraperVars, conversationContext, reply, build, clientVars, formatting>>

\* the upstream the request waits for answers before the timer fires
UpstreamAnswers ==
  /\ Suspended
  /\ \E r \in Settle(request, TRUE) :
       request' = [r EXCEPT !.answered = TRUE]
  /\ UNCHANGED <<scraperVars, conversationContext, reply, build, clientVars, formatting>>

\* the timer of the await fires first
TimerFires ==
  /\ Suspended
  /\ TimerOf(request.pc) > 0
  /\ \E r \in Settle(request, FALSE) :
       request' = [r EXCEPT !.timedOut = request.timedOut \cup {request.pc},
                            !.waited = request.waited + TimerOf(request.pc)]
  /\ UNCHANGED <<scraperVars, conversationContext, reply, build, clientVars, formatting>>

RequestNext ==
  \/ \E query \in RequestQueries, isAction \in BOOLEAN : Receive(query, isAction)
  \/ UpstreamAnswers
  \/ TimerFires

\* the scraper after the crawl of a first getComprehensiveWebsiteData call
\* that found both products of the site
WarmScraper ==
  /\ now = StartTime
  /\ prod = Combine(<<Product(AirRAM, "GBP199", "GBP249", <<>>, General, PageUrl(AirRAM), FALSE),
                      Product(HT50, "GBP199", Undefined, <<>>, General, PageUrl(HT50), FALSE)>>,
                    {})
  /\ pd = <<[products |-> <<1, 2>>, categories |-> <<Sale, General>>,
             crawlTime |-> StartTime]>>
  /\ productsCache = 1
  /\ cacheTimestamp = StartTime
  /\ websiteDataCache = BuildWebsiteData(1, FALSE)
  /\ calls = [t \in 1..MaxCalls |-> Idle]
  /\ ev = [EvNone EXCEPT !.kind = "built", !.fn = "comp"]
  /\ lastCrawl = [obj |-> 1, at |-> StartTime]

ChatIdle ==
  /\ conversationContext = [sid \in {"default"} |-> NoContext]
  /\ reply = NoReply
  /\ request = NoRequest
  /\ formatting = NoFormatting

\* the server after start-up
Init == ScraperInit /\ ChatIdle /\ WindowClosed /\ build = "current"

\* the scraper under calls of its three entry points
Spec == Init /\ [][ScraperNext]_vars

\* the scraper crawling the richer site
CatalogSpec == Init /\ [][CatalogNext]_vars

\* the server once its caches are filled, in either build
ChatInit == WarmScraper /\ ChatIdle /\ WindowClosed /\ build \in Builds

\* the orchestrator under messages, the caches valid
ChatSpec == ChatInit /\ [][ChatNext]_vars

\* the chat window once mounted, the server idle
WindowInit == ScraperInit /\ ChatIdle /\ WindowOpen /\ build = "current"

\* the chat window under questions and answers
WindowSpec == WindowInit /\ [][WindowNext]_vars

(***************************************************************************)
(* Claims about the scraper                                                *)
(***************************************************************************)
\* C1: a fetchGtechProducts call that begins less than CACHE_DURATION after
\* the last successful crawl completed returns that crawl's snapshot object
\* itself and starts no crawl; a call that begins CACHE_DURATION or more
\* after it (or before any successful crawl) starts a new crawl.
FetchServesFreshCacheElseCrawls ==
  (ev.fn = "fetch" /\ ev.kind \in {"served", "crawlStart"}) =>
    IF lastCrawl.obj # 0 /\ now - lastCrawl.at < CACHE_DURATION
    THEN ev.kind = "served" /\ ev.fetch = "cached" /\ ev.ret = lastCrawl.obj
    ELSE ev.kind = "crawlStart" /\ ev.fetch = "crawl"

\* a second call, one minute before expiry, has just been served the snapshot
FetchServedJustBeforeExpiry ==
  /\ ev.fn = "fetch" /\ ev.kind = "served"
  /\ ev.ret = lastCrawl.obj
  /\ now - lastCrawl.at = CACHE_DURATION - 1

\* C2: every snapshot getComprehensiveWebsiteData serves from its cache was
\* derived from a crawl that completed less than CACHE_DURATION before the
\* call.
ServedWebsiteDataIsFresh ==
  (ev.fn = "comp" /\ ev.kind = "served") =>
    /\ websiteDataCache.crawlTime # 0
    /\ now - websiteDataCache.crawlTime < CACHE_DURATION

\* C3: a failed crawl does not throw; it returns the previous cache object
\* if one exists (expired or not), otherwise a default snapshot with the four
\* default categories and no products; the cache and its timestamp stay as
\* they were.
FailedCrawlFallsBack ==
  ev.kind = "crawlFail" =>
    /\ ~ev.threw
    /\ productsCache = ev.cacheBefore
    /\ cacheTimestamp = ev.stampBefore
    /\ IF ev.cacheBefore # 0
       THEN ev.ret = ev.cacheBefore
       ELSE /\ ev.ret \in DOMAIN pd
            /\ pd[ev.ret].products = <<>>
            /\ pd[ev.ret].categories = DefaultCategories

\* a crawl has just failed while an expired cache existed
FailedCrawlWithExpiredCache ==
  /\ ev.kind = "crawlFail"
  /\ ev.cacheBefore # 0
  /\ ev.ret = ev.cacheBefore
  /\ now - cacheTimestamp >= CACHE_DURATION

\* C10: in every reachable state every product in the website snapshot's
\* sales list has a non-empty originalPrice, and every named product of its
\* products list with a non-empty originalPrice is in the sales list.
SalesMatchOriginalPrice ==
  websiteDataCache.present =>
    /\ \A i \in DOMAIN websiteDataCache.sales :
         prod[websiteDataCache.sales[i]].originalPrice # Undefined
    /\ \A i \in DOMAIN websiteDataCache.products :
         IsSaleProduct(prod[websiteDataCache.products[i]]) =>
           websiteDataCache.products[i] \in Range(websiteDataCache.sales)

(***************************************************************************)
(* Claims about the orchestrator                                           *)
(***************************************************************************)
\* C4: processChatMessage never rejects; whatever it was sent, it resolves to
\* a response whose text is a non-empty string.
ResponseIsNonEmptyString ==
  reply.path # "none" =>
    /\ ~reply.threw
    /\ reply.response.type = "string"
    /\ reply.response.text # <<>>

\* C5: when the primary oracle call times out, throws or returns an empty
\* completion, or no API key is configured, the response is the output of the
\* fallback responder: a non-empty string that is not the apology.
OracleFailureGetsFallback ==
  (build = "current" /\ reply.oracle \in {"nokey", "timeout", "throw", "empty"}) =>
    /\ reply.path = "fallback"
    /\ reply.response.type = "string"
    /\ reply.response.text # <<>>
    /\ ~startsWith(reply.response.text, ApologyText)

\* a query sent while the oracle timed out has been answered by the fallback
FallbackAfterTimeout ==
  /\ reply.oracle = "timeout"
  /\ reply.path = "fallback"
  /\ reply.message = airramQuery
  /\ reply.response.text = AirRAM

\* C6: every message that starts with 'action:' is answered, in any session
\* state, with the guide keyed by the trimmed identifier, every identifier
\* that is none of the six keys with the 'other' guide; the oracle is not
\* invoked and no product search is made.
ActionGetsKeyedGuide ==
  (reply.path # "none" /\ IsAction(reply.message)) =>
    /\ reply.path = "guide"
    /\ ~reply.oracleInvoked
    /\ ~reply.searched
    /\ \E hairCare \in BOOLEAN :
         LET table == troubleshootingGuides(hairCare)
             keyed == { i \in DOMAIN table : table[i].key = ActionOf(reply.message) }
             other == { i \in DOMAIN table : table[i].key = <<"t","r","o","u","b","l","e","s","h","o","o","t","_","o","t","h","e","r">> }
         IN \E i \in (IF keyed # {} THEN keyed ELSE other) :
              reply.response = table[i].guide

\* C7: a response carries options or showOptions = true only when the message
\* was classified as a problem report.
OptionsOnlyForProblemReports ==
  reply.showOptions =>
    \E i \in DOMAIN problemKeywords :
      /\ includes(toLowerCase(reply.message), problemKeywords[i])
      /\ ~startsWith(reply.message, <<"a","c","t","i","o","n",":">>)

\* a problem report has been answered with the options
ProblemReportGotOptions ==
  /\ reply.showOptions
  /\ reply.path = "options"
  /\ reply.message = brokenReport

\* C8: in a session whose lastProduct is P, 'how do I order this?' yields a
\* response that refers to P's url, on the oracle path and on the fallback.
OrderThisCitesLastProduct ==
  (reply.path # "none" /\ reply.message = orderThisMessage /\ reply.lastProductBefore # 0) =>
    reply.lastUrlBefore \in reply.response.urls

\* C9: after processChatMessage returns, on every path, the session's history
\* ends with the user message followed by the returned response; after k
\* messages it holds 2k turns.
HistoryEndsWithExchange ==
  (build = "current" /\ reply.path # "none") =>
    LET ctx == conversationContext[reply.session]
        h == ctx.conversationHistory
    IN /\ Len(h) = reply.historyBefore + 2
       /\ Len(h) = 2 * ctx.received
       /\ h[Len(h) - 1] = Turn("user", Text(reply.message, {}))
       /\ h[Len(h)] = Turn("assistant", reply.response)

SnapshotsNeverMutate ==
  [][\A id \in DOMAIN pd :
       /\ pd'[id] = pd[id]
       /\ \A k \in DOMAIN pd[id].products :
            prod'[pd[id].products[k]] = prod[pd[id].products[k]]]_vars

(***************************************************************************)
(* Claims about the chat window                                            *)
(***************************************************************************)
\* the only tags a converted text may hold
AllowedTags == { <<"<","a"," ">>, <<"<","/","a",">">>, <<"<","b","r",">">>, <<"<","s","t","r","o","n","g",">">>, <<"<","/","s","t","r","o","n","g",">">> }

\* every < of html opens or closes an a, br or strong element
OnlyAllowedElements(html) ==
  \A j \in 1..Len(html) : html[j] = "<" => \E t \in AllowedTags : OccursAt(html, t, j)

\* C13: in the html shown for a message the plain text of the message, the
\* text between a markdown ** pair included, is entity-escaped, so that the
\* text introduces no element other than a, br and strong.
TextAddsNoOtherElement ==
  \A k \in DOMAIN rendered : OnlyAllowedElements(rendered[k])

\* the characters of markdown bold and links
MarkdownChars == {"*", "[", "]", "(", ")"}

\* C14: converting the html shown for a message without markdown once more
\* returns that html unchanged: no entity is escaped a second time and no
\* anchor is wrapped in a second anchor.
RenderingIsIdempotent ==
  \A k \in DOMAIN messages :
    (\A j \in DOMAIN messages[k].content : messages[k].content[j] \notin MarkdownChars)
      => convertLinksToHTML(rendered[k]) = rendered[k]

\* the complete anchor tags with an href a text holds
AnchorsOf(text) ==
  LET Tags(ms) == { Slice(text, ms[k].start, ms[k].end - 1) : k \in DOMAIN ms }
  IN Tags(AnchorMatches(text, 1))

\* C15: the html shown for a message holds every anchor <a href="U">T</a> of
\* the message byte for byte, whatever surrounds or encloses the anchor.
AnchorsSurvive ==
  \A k \in DOMAIN messages :
    \A tag \in AnchorsOf(messages[k].content) : includes(rendered[k], tag)

\* the markdown links [text](url) of a text with an http(s) url: the url
\* without its trailing punctuation, and that punctuation
MarkdownLinksOf(text) ==
  LET Link(m, inner) == [url |-> m.url, trailing |-> Slice(inner, Len(m.url) + 1, Len(inner))]
      Inner(full) == trim(Slice(full, indexOfFrom(full, <<"]","(">>, 1) + 2, Len(full) - 1))
      Links(ms) == { Link(ms[k], Inner(Slice(text, ms[k].start, ms[k].end - 1))) : k \in DOMAIN ms }
  IN Links(MarkdownMatches(text, 1))

\* C16: a markdown link [text](url) of a message is shown as an anchor whose
\* href is the url without its trailing punctuation, and the punctuation
\* taken off the url follows the closing </a> as text.
MarkdownLinkKeepsPunctuation ==
  \A k \in DOMAIN messages :
    \A link \in MarkdownLinksOf(messages[k].content) :
      /\ includes(rendered[k], <<"<","a"," ","h","r","e","f","=","\"">> \o escapeHtml(link.url) \o <<"\"">>)
      /\ includes(rendered[k], <<"<","/","a",">">> \o link.trailing)

\* the bare URLs of a text as they stand in it, each without its trailing
\* punctuation (none is taken off a URL that ends with /), and that punctuation
BareUrlsOf(text) ==
  LET Url(matched, cut) == [url |-> Slice(matched, 1, Len(matched) - cut),
                            trailing |-> Slice(matched, Len(matched) - cut + 1, Len(matched))]
      Clean(matched) ==
        Url(matched, IF matched[Len(matched)] = "/" THEN 0
                     ELSE IF TrailingPunctuation(matched, 0) = Len(matched) THEN Len(matched) - 1
                     ELSE TrailingPunctuation(matched, 0))
      Urls(ms) == { Clean(Slice(text, ms[k].start, ms[k].end - 1)) : k \in DOMAIN ms }
  IN Urls(MatchesFrom(urlPattern, text, 1))

\* a text of words, quotes and bare URLs only: no tag, no markdown
PlainText(text) == \A j \in DOMAIN text : text[j] \notin MarkdownChars \cup {"<", ">"}

\* C17: every bare URL of a message outside a protected region is shown as
\* an anchor whose href is the URL as it stands in the message, up to the
\* first white space, quote or angle bracket and without its trailing
\* punctuation, and that punctuation follows the closing </a>.
BareUrlBecomesAnchor ==
  \A k \in DOMAIN messages :
    PlainText(messages[k].content) =>
      \A link \in BareUrlsOf(messages[k].content) :
        includes(rendered[k],
                 <<"<","a"," ","h","r","e","f","=","\"">> \o link.url \o <<"\""," ","t","a","r","g","e","t","=","\"","_","b","l","a","n","k","\""," ","r","e","l","=","\"","n","o","o","p","e","n","e","r"," ","n","o","r","e","f","e","r","r","e","r","\""," ","s","t","y","l","e","=","\"","c","o","l","o","r",":"," ","#","0","0","7","b","f","f",";"," ","t","e","x","t","-","d","e","c","o","r","a","t","i","o","n",":"," ","u","n","d","e","r","l","i","n","e",";","\"",">">>
                   \o escapeHtml(link.url) \o <<"<","/","a",">">> \o escapeHtml(link.trailing))

\* the name of product p contains one of the codes
NameHasCode(p, codes) ==
  \E i \in DOMAIN codes : includes(toLowerCase(p.name), toLowerCase(codes[i]))

\* C18: when the query of a search holds a product code, every product
\* found whose name contains the code precedes every product found through
\* its description or category only.
CodeMatchesComeFirst ==
  LET codes == productCodes(ev.query)
  IN codes # <<>> =>
       \A i, j \in DOMAIN ev.found :
         (i < j /\ NameHasCode(ev.found[j], codes)) => NameHasCode(ev.found[i], codes)

\* C19: a crawl during which one seed page is failing, the home page
\* included, is not aborted: it ends with a new snapshot, which is cached.
OneFailingPageKeepsCrawl ==
  (ev.kind \in {"crawlDone", "crawlFail"} /\ Cardinality(ev.failed) = 1) =>
    /\ ev.kind = "crawlDone"
    /\ productsCache = ev.ret
    /\ cacheTimestamp = now
    /\ pd[ev.ret].products = [i \in DOMAIN Combine(ev.raw, {}) |->
                                Len(prod) - Len(Combine(ev.raw, {})) + i]

\* the first n members of a list, Array.prototype.slice(0, n)
FirstN(s, n) == SubSeq(s, 1, IF Len(s) < n THEN Len(s) ELSE n)

\* C20: a WebsiteData built while the home page announces Black Friday and
\* no product is tagged as Black Friday by its name, category, description
\* or url has as its blackFriday list the first 30 sale products, so never
\* more than 30 products.
BlackFridayListIsBounded ==
  (/\ ev.kind = "built"
   /\ websiteDataCache.hasBlackFriday
   /\ \A i \in DOMAIN websiteDataCache.products :
        ~IsBlackFridayTagged(prod[websiteDataCache.products[i]]))
    => /\ websiteDataCache.blackFriday = FirstN(websiteDataCache.sales, 30)
       /\ Len(websiteDataCache.blackFriday) <= 30

(***************************************************************************)
(* Scraper: overlapping crawls (src/unnamed/part_005, lines 224-393)       *)
(***************************************************************************)
\* how many fetchGtechProducts calls may be suspended at the same time when
\* requests overlap
MaxOverlap == 2

\* a server that takes a second request while the first one still crawls
OverlapInit ==
  /\ now = StartTime
  /\ prod = <<>>
  /\ pd = <<>>
  /\ productsCache = 0
  /\ cacheTimestamp = 0
  /\ websiteDataCache = NoWebsiteData
  /\ calls = [t \in 1..MaxOverlap |-> Idle]
  /\ ev = EvNone
  /\ lastCrawl = [obj |-> 0, at |-> 0]
  /\ ChatIdle
  /\ WindowClosed
  /\ build = "current"

\* the clock, calls of fetchGtechProducts and the outcomes of their crawls
OverlapNext ==
  \/ Tick
  \/ FetchCall
  \/ \E t \in Slots, raw \in RawCrawls, failed \in ToleratedFailures :
       CrawlSucceed(t, raw, failed)
  \/ \E t \in Slots : CrawlFail(t)

OverlapSpec == OverlapInit /\ [][OverlapNext]_vars

\* the Product records a snapshot lists, in order
Listed(snapshot, heap) == [i \in DOMAIN snapshot.products |-> heap[snapshot.products[i]]]

\* C21: when crawls overlap, every step either is the completion of one
\* crawl, which makes the cache the complete de-duplicated product list of
\* that crawl and the timestamp the time of that completion, or leaves the
\* cache and its timestamp alone; so the cache is empty or one finished
\* crawl's list, stamped with that crawl's completion time.
CachePublishedWhole ==
  [][ /\ IF ev'.kind = "crawlDone"
         THEN /\ productsCache' = Len(pd')
              /\ Listed(pd'[productsCache'], prod') = Combine(ev'.raw, {})
              /\ cacheTimestamp' = now'
         ELSE UNCHANGED <<productsCache, cacheTimestamp>>
      /\ \/ productsCache' = 0 /\ cacheTimestamp' = 0
         \/ /\ productsCache' \in DOMAIN pd'
            /\ productsCache' = lastCrawl'.obj
            /\ cacheTimestamp' = lastCrawl'.at
            /\ pd'[productsCache'].crawlTime = cacheTimestamp' ]_vars

\* two crawls overlapped and both finished, at different times: the second
\* finished while the first one's snapshot was still fresh, so it had started
\* before the first was published
OverlappedCrawlsFinished ==
  /\ Len(pd) = 2
  /\ productsCache = 2
  /\ pd[1].crawlTime >= StartTime
  /\ pd[2].crawlTime > pd[1].crawlTime
  /\ pd[2].crawlTime - pd[1].crawlTime < CACHE_DURATION
  /\ Listed(pd[1], prod) # Listed(pd[2], prod)

(***************************************************************************)
(* Orchestrator: races against timers (src/lib/chatbot.ts, lines 608-685)  *)
(***************************************************************************)
\* processChatMessage, lines 610-625 and 657: the timer of a Promise.race
\* fires while getComprehensiveWebsiteData or searchProducts is suspended in
\* the scraper; the request goes on with the timer's value, and the call,
\* which nothing cancels, stays suspended where it was
RaceLost(t) ==
  /\ \/ calls[t].fn = "comp" /\ calls[t].pc \in {"crawl", "sales"}
     \/ calls[t].fn = "search" /\ calls[t].pc \in {"crawl", "nickname"}
  /\ ~calls[t].lost
  /\ calls' = [calls EXCEPT ![t].lost = TRUE]
  /\ ev' = [EvNone EXCEPT !.kind = "timeout", !.fn = calls[t].fn]
  /\ UNCHANGED <<now, prod, pd, productsCache, cacheTimestamp, websiteDataCache,
                 lastCrawl>>
  /\ UNCHANGED chatVars

\* one request's raced scraper calls, their timers and their completions
RaceNext ==
  \/ CompCall
  \/ \E q \in Queries : SearchCall(q)
  \/ \E t \in Slots : RaceLost(t)
  \/ \E t \in Slots, raw \in RawCrawls, failed \in ToleratedFailures :
       CrawlSucceed(t, raw, failed)
  \/ \E t \in Slots : CrawlFail(t)
  \/ \E t \in Slots, hasBlackFriday \in BOOLEAN : CompFinish(t, hasBlackFriday)
  \/ \E t \in Slots : NicknameFetch(t)
  \/ \E t \in Slots, r \in DOMAIN prod : Backfill(t, r)

RaceSpec == Init /\ [][RaceNext]_vars

\* C22: a step of a call that has lost its race changes no shared state of
\* the scraper: the catalog cache, its timestamp, the website data cache and
\* the product records stay as they were.
LateResultIsDiscarded ==
  [][ \A t \in Slots :
        calls[t].lost /\ calls'[t] # calls[t]
          => UNCHANGED <<productsCache, cacheTimestamp, websiteDataCache, pd, prod>> ]_vars

(***************************************************************************)
(* Orchestrator: termination of a request                                  *)
(***************************************************************************)
\* requests whose upstreams answer or not, under timers that fire
RequestSpec == Init /\ [][RequestNext]_vars /\ WF_vars(TimerFires)

\* C23: a request that has been received eventually returns, whether or not
\* any upstream ever answers.
RequestEventuallyReturns == Suspended ~> (request.pc = "returned")

\* a request has returned although no upstream answered it: the timers of the
\* site data, the search, the oracle, and of the fallback's crawl and
\* nickname page have fired
ReturnedWithoutAnswers ==
  /\ request.pc = "returned"
  /\ ~request.answered
  /\ {"siteData", "search", "oracle", "crawlSales", "crawlPages", "crawlHome",
      "fbNickname"} \subseteq request.timedOut

(***************************************************************************)
(* Orchestrator: problem reports (src/lib/chatbot.ts, lines 530-606)       *)
(***************************************************************************)
\* a problem report that names no product code
stillBrokenReport == <<"i","t"," ","i","s"," ","s","t","i","l","l"," ","b","r","o","k","e","n">>
ReportMessages == {brokenReport, stillBrokenReport, powerAction}

\* the current orchestrator under problem reports and option selections
ReportNext ==
  \E sid \in SessionIds, message \in ReportMessages, oracle \in Oracles, site \in Sites :
    ProcessChatMessage(sid, message, oracle, site)

\* a server with filled caches that runs src/lib/chatbot.ts
ReportInit == ChatInit /\ build = "current"

ReportSpec == ReportInit /\ [][ReportNext]_vars

\* C24: after a non-action message with problem-report vocabulary has been
\* processed, the session's productModelNumber is the first product code of
\* that message, or no code when the message has none, and the request went
\* on to the search and the generation.
ModelNumberFollowsReport ==
  (reply.path # "none" /\ isProblemReport(reply.message) /\ ~IsAction(reply.message))
    => /\ conversationContext[reply.session].productModelNumber =
            (IF productCodes(reply.message) = <<>> THEN <<>>
             ELSE productCodes(reply.message)[1])
       /\ reply.searched
       /\ reply.path \in {"oracle", "fallback"}

(***************************************************************************)
(* Orchestrator: the session focus (src/lib/chatbot.ts, lines 651-695)     *)
(***************************************************************************)
\* C25: a request changes the lastProducts of its session only when the
\* product search of its message has more than one match, and then to the
\* first 10 of the matches.
OnlyWideSearchSetsLastProducts ==
  [][ \A sid \in SessionIds :
        conversationContext'[sid].lastProducts # conversationContext[sid].lastProducts
          => LET matches == SearchResults(reply'.message, productsCache, pd, prod)
             IN /\ reply'.session = sid
                /\ Len(matches) > 1
                /\ conversationContext'[sid].lastProducts = Slice0(matches, 10) ]_vars

(***************************************************************************)
(* Orchestrator: the primary completion request                            *)
(* (src/lib/chatbot.ts, lines 527-528 and 1063-1086)                       *)
(***************************************************************************)
\* C26: the primary request to the oracle is the system instruction, then
\* the turns recorded before this message (the last 10 at most, in their
\* order), then the current user message, once.
OracleRequestHasMessageOnce ==
  reply.oracleInvoked =>
    LET history == conversationContext[reply.session].conversationHistory
        previous == SubSeq(history, 1, reply.historyBefore)
    IN reply.oracleRequest =
         <<SystemTurn>> \o SliceLast(previous, 10)
                        \o <<Turn("user", Text(reply.message, {}))>>

(***************************************************************************)
(* Orchestrator: the fallback responder's rules                            *)
(* (src/lib/chatbot.ts, lines 1555-1688)                                   *)
(***************************************************************************)
\* how many further products the catalogue of the wide site lists
WideSize == 6

\* a catalogue with more products than one listing shows: the cards of the
\* further products carry no link, so that their url is the base url
\* (part_005, lines 148-172)
WideCatalog ==
  <<Product(AirRAM, "GBP199", "GBP249", <<>>, General, PageUrl(AirRAM), FALSE),
    Product(HT50, "GBP199", Undefined, <<>>, General, PageUrl(HT50), FALSE)>>
  \o [i \in 1..WideSize |->
        Product(SaleName(i), "GBP99", Undefined, <<>>, General, GTECH_BASE_URL, FALSE)]

\* the scraper after the crawl of that catalogue
WideScraper ==
  /\ now = StartTime
  /\ prod = Combine(WideCatalog, {})
  /\ pd = <<[products |-> <<>> \o [i \in 1..(WideSize + 2) |-> i],
             categories |-> <<Sale, General>>, crawlTime |-> StartTime]>>
  /\ productsCache = 1
  /\ cacheTimestamp = StartTime
  /\ websiteDataCache = BuildWebsiteData(1, FALSE)
  /\ calls = [t \in 1..MaxCalls |-> Idle]
  /\ ev = [EvNone EXCEPT !.kind = "built", !.fn = "comp"]
  /\ lastCrawl = [obj |-> 1, at |-> StartTime]

FallbackInit == WideScraper /\ ChatIdle /\ WindowClosed /\ build = "current"

\* messages that meet one rule of the responder or several
bothQuery == <<"a","i","r","r","a","m"," ","a","n","d"," ","h","t","5","0">>
wideQuery == <<"s","0">>
orderTheseMessage == <<"o","r","d","e","r"," ","t","h","e","s","e">>
buyThisOffer == <<"b","u","y"," ","t","h","i","s"," ","o","f","f","e","r">>
FallbackMessages ==
  { airramQuery, bothQuery, wideQuery, orderThisMessage, orderTheseMessage,
    buyThisOffer, offerQuestion, greeting }

\* no API key is configured, or the primary completion loses its race
FallbackOracles == {"nokey", "timeout"}

\* the current orchestrator answering with generateIntelligentResponse
FallbackNext ==
  \E sid \in SessionIds, message \in FallbackMessages, oracle \in FallbackOracles,
     site \in Sites :
    ProcessChatMessage(sid, message, oracle, site)

FallbackSpec == FallbackInit /\ [][FallbackNext]_vars

\* generateIntelligentResponse, line 1596
SaleVocabulary(message) ==
  \E word \in {<<"s","a","l","e">>, <<"p","r","o","m","o","t","i","o","n">>, <<"d","i","s","c","o","u","n","t">>, <<"o","f","f","e","r">>} :
    includes(toLowerCase(message), word)

\* the rule of the decision list that a response comes from, by its opening
\* words (lines 1564, 1590, 1599, 1629, 1662 and 1685)
RuleAnswered(response) ==
  IF startsWith(response.text, <<"T","o"," ","o","r","d","e","r"," ","t","h","e","s","e"," ","p","r","o","d","u","c","t","s",":">>) THEN 1
  ELSE IF startsWith(response.text, <<"T","o"," ","o","r","d","e","r"," ">>) THEN 2
  ELSE IF startsWith(response.text, <<"Y","o","u"," ","c","a","n"," ","v","i","e","w"," ","a","l","l"," ","o","u","r"," ","c","u","r","r","e","n","t"," ","o","f","f","e","r","s"," ","h","e","r","e",":">>) THEN 3
  ELSE IF startsWith(response.text, <<"I"," ","f","o","u","n","d"," ">>) THEN 5
  ELSE IF startsWith(response.text, <<"I","'","m"," ","h","e","r","e"," ","t","o"," ","h","e","l","p","!">>) THEN 6
  ELSE 4

\* the first rule that applies to a message, for a session context and a
\* number of search matches
RuleThatApplies(message, ctx, matches) ==
  IF RefersToThese(message) /\ AsksToOrder(message) /\ ctx.lastProducts # <<>> THEN 1
  ELSE IF RefersToThis(message) /\ AsksToOrder(message) /\ ctx.lastProduct # 0 THEN 2
  ELSE IF SaleVocabulary(message) THEN 3
  ELSE IF matches = 1 THEN 4
  ELSE IF matches > 1 THEN 5
  ELSE 6

\* a listing names the first 5 of the n matches and no other, and ends with
\* an overflow note that counts the others exactly when there are more
ListingIsBounded(text, names, n) ==
  /\ \A i \in 1..n : includes(text, <<" ">> \o names[i]) <=> i <= 5
  /\ n > 5 <=> includes(text, <<".",".",".","a","n","d"," ">>)
  /\ n > 5 => includes(text, <<".",".",".","a","n","d"," ">> \o NumberToString(n - 5) \o <<" ","m","o","r","e"," ","p","r","o","d","u","c","t","s",".">>)

\* the response is that of rule, and a listing is bounded
AnswersRule(response, rule, names) ==
  /\ RuleAnswered(response) = rule
  /\ rule = 5 => ListingIsBounded(response.text, names, Len(names))

\* the response to message is that of the first rule that applies after the
\* search sr, in the session context before
AnswersFirstRule(response, message, before, sr) ==
  AnswersRule(response,
              RuleThatApplies(message, Remember(Opened(before, message), sr.results),
                              Len(sr.results)),
              [i \in DOMAIN sr.results |-> sr.heap[sr.results[i]].name])

\* C27: the fallback responder answers with the first rule of its list that
\* applies - ordering these, ordering this, the sale template, the single
\* product, the listing, the generic help - and a listing names the first 5
\* matches at most and counts the others in its overflow note.
FallbackAnswersFirstRule ==
  [][ \A site \in Sites :
        (/\ reply'.path = "fallback"
         /\ ProcessChatMessage(reply'.session, reply'.message, reply'.oracle, site))
          => AnswersFirstRule(reply'.response, reply'.message,
                              conversationContext[reply'.session],
                              SearchResult(reply'.message, site, prod)) ]_vars

\* the responder has answered a message that asks to buy "this offer" with
\* the ordering instructions for the last product, not with the sale template
OrderRuleWonOverSaleRule ==
  /\ reply.path = "fallback"
  /\ reply.message = buyThisOffer
  /\ RuleAnswered(reply.response) = 2
  /\ SaleVocabulary(reply.message)

(***************************************************************************)
(* Scraper: the nickname table of searchProducts                           *)
(* (src/unnamed/part_005, lines 635-667)                                   *)
(***************************************************************************)
\* queries that contain a nickname and, inside it, a shorter one
lht50Query == <<"l","h","t","5","0">>
NicknameQueries == {lht50Query, airram3Query}

\* searchProducts under such queries, its crawls and page fetches
NicknameNext ==
  \/ \E q \in NicknameQueries : SearchCall(q)
  \/ \E t \in Slots, raw \in RawCrawls, failed \in ToleratedFailures :
       CrawlSucceed(t, raw, failed)
  \/ \E t \in Slots : CrawlFail(t)
  \/ \E t \in Slots : NicknameFetch(t)
  \/ \E t \in Slots, r \in DOMAIN prod : Backfill(t, r)

NicknameSpec == Init /\ [][NicknameNext]_vars

\* the position in the table of the longest nickname the lower-cased query
\* contains; 0 when it contains none
LongestSlug(lowerQuery) ==
  LET hits == { j \in DOMAIN productSlugs : includes(lowerQuery, productSlugs[j].key) }
  IN IF hits = {} THEN 0
     ELSE CHOOSE j \in hits :
            \A k \in hits : Len(productSlugs[k].key) <= Len(productSlugs[j].key)

\* C28: the nickname table is consulted only by a search whose catalog search
\* matched nothing, and the product such a search returns is the one of the
\* page of the longest nickname that its query contains.
NicknameResolvesToLongest ==
  /\ \A t \in Slots :
       calls[t].pc = "nickname"
         => SearchResults(calls[t].query, calls[t].data, pd, prod) = <<>>
  /\ ev.kind = "nickname" /\ ev.found # <<>>
       => /\ Len(ev.found) = 1
          /\ ev.found[1].url = productSlugs[LongestSlug(toLowerCase(ev.query))].url

(***************************************************************************)
(* Orchestrator: two sessions (src/lib/chatbot.ts, lines 507-528)          *)
(***************************************************************************)
\* a server with filled caches that two browsers talk to
TwoSessionsInit ==
  /\ WarmScraper
  /\ conversationContext = [sid \in {"A", "B"} |-> NoContext]
  /\ reply = NoReply
  /\ request = NoRequest
  /\ formatting = NoFormatting
  /\ WindowClosed
  /\ build = "current"

TwoSessionsMessages == {airramQuery, greeting}
TwoSessionsOracles == {"plain"}

\* processChatMessage called for either session
TwoSessionsNext ==
  \E sid \in SessionIds, message \in TwoSessionsMessages, oracle \in TwoSessionsOracles,
     site \in Sites :
    ProcessChatMessage(sid, message, oracle, site)

TwoSessionsSpec == TwoSessionsInit /\ [][TwoSessionsNext]_vars

\* the product records a session context refers to
Focus(ctx) == (IF ctx.lastProduct # 0 THEN {ctx.lastProduct} ELSE {}) \cup Range(ctx.lastProducts)

\* C29: a request of one session leaves the stored context of every other
\* session as it was: its history, its lastProduct and lastProducts, and the
\* fields of the product records these refer to.
OtherSessionsUntouched ==
  [][ \A other \in SessionIds \ {reply'.session} :
        /\ conversationContext'[other] = conversationContext[other]
        /\ \A r \in Focus(conversationContext[other]) : prod'[r] = prod[r] ]_vars

(***************************************************************************)
(* Orchestrator: formatResponseWithLinks on the characters of a completion *)
(* (src/lib/chatbot.ts, lines 1257-1553)                                   *)
(***************************************************************************)
\* \w
Word == One(Range(UpperCase) \cup Range(LowerCase) \cup Digits \cup {"_"})

\* (?=p) and (?<=p)
Ahead(p) == NotAhead(<<NotAhead(p)>>)
Behind(p) == NotBehind(<<NotBehind(p)>>)

\* \b: a word character on exactly one side
WordBoundary ==
  Alt(<< <<NotBehind(<<Word>>), Ahead(<<Word>>)>>,
         <<Behind(<<Word>>), NotAhead(<<Word>>)>> >>)

\* lines 490-503: CATEGORY_URLS, in the order of its keys
CategoryPage(name, path) == [name |-> name, url |-> GTECH_BASE_URL \o path]
CATEGORY_URLS ==
  << CategoryPage(<<"p","o","w","e","r"," ","t","o","o","l","s">>, <<"/","c","o","r","d","l","e","s","s","-","p","o","w","e","r","-","t","o","o","l","s",".","h","t","m","l">>),
     CategoryPage(<<"p","o","w","e","r"," ","t","o","o","l">>, <<"/","c","o","r","d","l","e","s","s","-","p","o","w","e","r","-","t","o","o","l","s",".","h","t","m","l">>),
     CategoryPage(<<"g","a","r","d","e","n"," ","t","o","o","l","s">>, <<"/","g","a","r","d","e","n","-","t","o","o","l","s",".","h","t","m","l">>),
     CategoryPage(<<"g","a","r","d","e","n"," ","t","o","o","l">>, <<"/","g","a","r","d","e","n","-","t","o","o","l","s",".","h","t","m","l">>),
     CategoryPage(<<"f","l","o","o","r","c","a","r","e">>, <<"/","c","o","r","d","l","e","s","s","-","v","a","c","u","u","m","-","c","l","e","a","n","e","r","s",".","h","t","m","l">>),
     CategoryPage(<<"f","l","o","o","r"," ","c","a","r","e">>, <<"/","c","o","r","d","l","e","s","s","-","v","a","c","u","u","m","-","c","l","e","a","n","e","r","s",".","h","t","m","l">>),
     CategoryPage(<<"h","a","i","r"," ","c","a","r","e">>, <<"/","h","a","i","r","c","a","r","e",".","h","t","m","l">>),
     CategoryPage(<<"h","a","i","r","c","a","r","e">>, <<"/","h","a","i","r","c","a","r","e",".","h","t","m","l">>),
     CategoryPage(<<"v","a","c","u","u","m">>, <<"/","c","o","r","d","l","e","s","s","-","v","a","c","u","u","m","-","c","l","e","a","n","e","r","s",".","h","t","m","l">>),
     CategoryPage(<<"d","r","i","l","l">>, <<"/","c","o","r","d","l","e","s","s","-","p","o","w","e","r","-","t","o","o","l","s",".","h","t","m","l">>),
     CategoryPage(<<"m","o","w","e","r">>, <<"/","g","a","r","d","e","n","-","t","o","o","l","s",".","h","t","m","l">>),
     CategoryPage(<<"t","r","i","m","m","e","r">>, <<"/","g","a","r","d","e","n","-","t","o","o","l","s",".","h","t","m","l">>) >>

\* lines 1270 and 1326: Array.prototype.sort by the length of the name, the
\* longest first; items of one length keep their order
RECURSIVE LongestFirst(_)
LongestFirst(items) ==
  IF items = <<>> THEN <<>>
  ELSE LET Of(longest) ==
             SelectSeq(items, LAMBDA x : Len(x.name) = longest)
             \o LongestFirst(SelectSeq(items, LAMBDA x : Len(x.name) # longest))
       IN Of(MaxOf({ Len(items[k].name) : k \in DOMAIN items }))

\* lines 1274-1277 and 1328-1337: new RegExp(`\\b${escapedName}\\b`, 'gi'),
\* every character of the name escaped into a literal
NamePattern(name) == <<WordBoundary>> \o LitI(name) \o <<WordBoundary>>

\* the matches of regex.exec(formatted) in the loops of lines 1288 and 1344
NameMatches(pat, name, formatted) ==
  MatchesIn(pat, formatted,
            { j \in 1..Len(formatted) :
                FirstFits(LitI(name), formatted, j) /\ Match(pat, formatted, j, NoCaps).ok },
            1)

\* lines 1296-1301 and 1355-1362: the last '<a' before the match comes after
\* the last '</a>' before it
InsideLink(formatted, matchIndex) ==
  lastIndexOf(formatted, <<"<","a">>, matchIndex - 1)
    > lastIndexOf(formatted, <<"<","/","a",">">>, matchIndex - 1)

\* lines 1306, 1367, 1440 and 1458
Anchor(url, text) ==
  <<"<","a"," ","h","r","e","f","=","\"">> \o url \o <<"\""," ","t","a","r","g","e","t","=","\"","_","b","l","a","n","k","\""," ","r","e","l","=","\"","n","o","o","p","e","n","e","r"," ","n","o","r","e","f","e","r","r","e","r","\"",">">> \o text \o <<"<","/","a",">">>

\* lines 1273-1316: the mentions of one product become links to its page
LinkProduct(formatted, product) ==
  LET Go(ms) ==
        Splice(formatted, ms,
               [k \in DOMAIN ms |->
                  IF InsideLink(formatted, ms[k].start)
                  THEN Slice(formatted, ms[k].start, ms[k].end - 1)
                  ELSE Anchor(product.url, Slice(formatted, ms[k].start, ms[k].end - 1))],
               1, 1)
  IN IF product.name = <<>> \/ product.url = NoUrl THEN formatted
     ELSE Go(NameMatches(NamePattern(product.name), product.name, formatted))

\* lines 1350-1368: the matches collected at lines 1344-1349, from the last
\* to the first
RECURSIVE LinkCategoryMatches(_, _, _, _)
LinkCategoryMatches(formatted, matches, i, categoryUrl) ==
  IF i = 0 \/ ~Done(formatted) THEN formatted
  ELSE LinkCategoryMatches(
         IF InsideLink(formatted, matches[i].index) THEN formatted
         ELSE Slice(formatted, 1, matches[i].index - 1)
              \o Anchor(categoryUrl, matches[i].text)
              \o Slice(formatted, matches[i].index + matches[i].length, Len(formatted)),
         matches, i - 1, categoryUrl)

\* lines 1328-1373: the mentions of one category become links to its page
LinkCategory(formatted, category) ==
  LET Go(ms) ==
        LinkCategoryMatches(
          formatted,
          [k \in DOMAIN ms |->
             [index |-> ms[k].start,
              text |-> Slice(formatted, ms[k].start, ms[k].end - 1),
              length |-> ms[k].end - ms[k].start]],
          Len(ms), category.url)
  IN Go(NameMatches(NamePattern(category.name), category.name, formatted))

\* sortedProducts.forEach, lines 1272-1321
RECURSIVE LinkProducts(_, _)
LinkProducts(formatted, sortedProducts) ==
  IF sortedProducts = <<>> \/ ~Done(formatted) THEN formatted
  ELSE LinkProducts(LinkProduct(formatted, sortedProducts[1]), Tail(sortedProducts))

\* categoryEntries.forEach, lines 1328-1373
RECURSIVE LinkCategories(_, _)
LinkCategories(formatted, categoryEntries) ==
  IF categoryEntries = <<>> \/ ~Done(formatted) THEN formatted
  ELSE LinkCategories(LinkCategory(formatted, categoryEntries[1]), Tail(categoryEntries))

\* lines 1376-1378: the common terms
CommonTermRules ==
  << Rule(LitI(<<"G","t","e","c","h"," ","w","e","b","s","i","t","e">>),
          <<"<","a"," ","h","r","e","f","=","\"">> \o GTECH_BASE_URL \o <<"\""," ","t","a","r","g","e","t","=","\"","_","b","l","a","n","k","\"",">","G","t","e","c","h"," ","w","e","b","s","i","t","e","<","/","a",">">>, 0, <<>>),
     Rule(LitI(<<"o","u","r"," ","w","e","b","s","i","t","e">>),
          <<"<","a"," ","h","r","e","f","=","\"">> \o GTECH_BASE_URL \o <<"\""," ","t","a","r","g","e","t","=","\"","_","b","l","a","n","k","\"",">","o","u","r"," ","w","e","b","s","i","t","e","<","/","a",">">>, 0, <<>>),
     Rule(LitI(<<"T","r","a","c","k"," ","M","y"," ","O","r","d","e","r">>),
          <<"<","a"," ","h","r","e","f","=","\"">> \o GTECH_BASE_URL \o <<"/","t","r","a","c","k","-","m","y","-","o","r","d","e","r","\""," ","t","a","r","g","e","t","=","\"","_","b","l","a","n","k","\"",">","T","r","a","c","k"," ","M","y"," ","O","r","d","e","r","<","/","a",">">>, 0, <<>>) >>

\* /https?:\/\/[^\s<>"')]+/g, lines 1503 and 1511
urlInList ==
  Lit(<<"h","t","t","p">>) \o <<Opt(Lit(<<"s">>))>> \o Lit(<<":","/","/">>)
  \o <<Star(Not({" ", "\n", "\t", "<", ">", "\"", "'", ")"}), 1, FALSE)>>

\* the texts of the matches ms of s
MatchTexts(s, ms) == [k \in DOMAIN ms |-> Slice(s, ms[k].start, ms[k].end - 1)]

\* lines 1381-1385: url](url) becomes the first match of urlPattern in it
CleanBrokenMarkdown(formatted) ==
  LET First(text, urlMatch) == IF urlMatch = <<>> THEN text ELSE urlMatch[1]
      Go(ms) ==
        Splice(formatted, ms,
               [k \in DOMAIN ms |->
                  First(MatchTexts(formatted, ms)[k],
                        MatchTexts(MatchTexts(formatted, ms)[k],
                                   MatchesFrom(urlPattern, MatchTexts(formatted, ms)[k], 1)))],
               1, 1)
  IN Go(MatchesFrom(urlPattern \o Lit(<<"]","(">>) \o urlPattern \o Lit(<<")">>), formatted, 1))

\* lines 1436 and 1469: the quotes of an attribute value
EscapeQuotes(url) ==
  ReplaceLiteral(ReplaceLiteral(url, <<"\"">>, <<"&","q","u","o","t",";">>), <<"'">>, <<"&","#","0","3","9",";">>)

\* lines 1408-1443: what one match of urlPattern is replaced by; a match
\* inside a link stays as it is
UrlAnchor(formatted, m) ==
  LET Cut(url, cut) ==
        Anchor(EscapeQuotes(Slice(url, 1, Len(url) - cut)), Slice(url, 1, Len(url) - cut))
        \o Slice(url, Len(url) - cut + 1, Len(url))
      Of(url) ==
        Cut(url, IF url[Len(url)] = "/" THEN 0
                 ELSE IF TrailingPunctuation(url, 0) = Len(url) THEN Len(url) - 1
                 ELSE TrailingPunctuation(url, 0))
  IN IF InsideLink(formatted, m.start) THEN Slice(formatted, m.start, m.end - 1)
     ELSE Of(Slice(formatted, m.start, m.end - 1))

\* lines 1400-1451: the bare URLs become anchors; the replacements, made from
\* the last match to the first, leave the positions of the earlier ones
LinkUrls(formatted) ==
  LET Go(ms) == Splice(formatted, ms, [k \in DOMAIN ms |-> UrlAnchor(formatted, ms[k])], 1, 1)
  IN Go(MatchesFrom(urlPattern, formatted, 1))

\* https?:\/\/[^"]+ as capture group 1
HrefGroup ==
  <<Mark(1)>> \o Lit(<<"h","t","t","p">>) \o <<Opt(Lit(<<"s">>))>> \o Lit(<<":","/","/">>)
  \o <<Star(Not({"\""}), 1, FALSE), Mark(2)>>

\* [^<]+ as capture group 2
LinkTextGroup == <<Mark(3), Star(Not({"<"}), 1, FALSE), Mark(4)>>

\* lines 1455-1462: /(<a href="(https?:\/\/[^"]+)"[^>]*>)([^<]+)(<\/a>)/g, an
\* anchor whose text is not its href gets the href for text
FixLinkText(formatted) ==
  LET Go(ms) ==
        Splice(formatted, ms,
               [k \in DOMAIN ms |->
                  IF Group(formatted, ms[k], 2) # Group(formatted, ms[k], 1)
                  THEN Anchor(Group(formatted, ms[k], 1), Group(formatted, ms[k], 1))
                  ELSE Slice(formatted, ms[k].start, ms[k].end - 1)],
               1, 1)
  IN Go(MatchesFrom(Lit(<<"<","a"," ","h","r","e","f","=","\"">>) \o HrefGroup \o Lit(<<"\"">>)
                    \o <<Star(Not({">"}), 0, FALSE)>> \o Lit(<<">">>)
                    \o LinkTextGroup \o Lit(<<"<","/","a",">">>), formatted, 1))

\* lines 1466-1474: /<a\s+href="(https?:\/\/[^"]+)"[^>]*>([^<]+)<\/a>/g, an
\* anchor whose text is shorter than its href gets the href for text
FixShortLinkText(formatted) ==
  LET Go(ms) ==
        Splice(formatted, ms,
               [k \in DOMAIN ms |->
                  IF /\ Group(formatted, ms[k], 2) # Group(formatted, ms[k], 1)
                     /\ Len(Group(formatted, ms[k], 2)) < Len(Group(formatted, ms[k], 1))
                  THEN Anchor(EscapeQuotes(Group(formatted, ms[k], 1)), Group(formatted, ms[k], 1))
                  ELSE Slice(formatted, ms[k].start, ms[k].end - 1)],
               1, 1)
  IN Go(MatchesFrom(Lit(<<"<","a">>) \o <<Star(Space, 1, FALSE)>> \o Lit(<<"h","r","e","f","=","\"">>) \o HrefGroup
                    \o Lit(<<"\"">>) \o <<Star(Not({">"}), 0, FALSE)>> \o Lit(<<">">>)
                    \o LinkTextGroup \o Lit(<<"<","/","a",">">>), formatted, 1))

\* s.split(sep)[0]
BeforeFirst(s, sep) ==
  IF indexOfFrom(s, sep, 1) = 0 THEN s ELSE Slice(s, 1, indexOfFrom(s, sep, 1) - 1)

\* s.split(sep)[1], s holding sep
SecondPart(s, sep) ==
  BeforeFirst(Slice(s, indexOfFrom(s, sep, 1) + Len(sep), Len(s)), sep)

\* s.split('/').length
Segments(s) == Cardinality({ k \in DOMAIN s : s[k] = "/" }) + 1

\* lines 1482-1507, the callback of pattern 1: the pattern holds '.html-'
\* and begins with the scheme, so lines 1484 and 1488 always succeed and
\* the reduce of lines 1499-1506 is never reached
RepairEmbedded(malformedUrl) ==
  LET domain(m) == Group(malformedUrl, m, 1)
      pathAfterHtml ==
        BeforeFirst(BeforeFirst(BeforeFirst(BeforeFirst(BeforeFirst(
          SecondPart(malformedUrl, <<".","h","t","m","l","-">>), <<" ">>), <<")">>), <<"\"">>), <<"'">>), <<"<">>)
      Stripped(path, slashes) == Slice(path, slashes + 1, Len(path))
  IN <<"h","t","t","p","s",":","/","/">>
     \o domain(Match(Lit(<<"h","t","t","p">>) \o <<Opt(Lit(<<"s">>))>> \o Lit(<<":","/","/">>)
                     \o <<Mark(1), Star(Not({"/"}), 1, FALSE), Mark(2)>>,
                     malformedUrl, 1, NoCaps))
     \o <<"/">>
     \o Stripped(pathAfterHtml, RunLen(One({"/"}), pathAfterHtml, 1))

\* lines 1499-1506 and 1513-1521: Array.prototype.reduce over the urls
RECURSIVE LongestUrl(_, _, _)
LongestUrl(longest, urls, ties) ==
  IF urls = <<>> THEN longest
  ELSE LongestUrl(
         IF \/ Segments(urls[1]) > Segments(longest)
            \/ ties /\ Segments(urls[1]) = Segments(longest) /\ Len(urls[1]) > Len(longest)
         THEN urls[1] ELSE longest,
         Tail(urls), ties)

\* lines 1510-1524, the callback of pattern 2
KeepLongestUrl(malformedUrl) ==
  LET Of(urls) == IF Len(urls) > 1 THEN LongestUrl(urls[1], Tail(urls), TRUE)
                  ELSE malformedUrl
  IN Of(MatchTexts(malformedUrl, MatchesFrom(urlInList, malformedUrl, 1)))

\* lines 1482, 1510 and 1527: the urls that run into one another
RepairUrls(formatted) ==
  LET pattern1 ==
        Lit(<<"h","t","t","p">>) \o <<Opt(Lit(<<"s">>))>> \o Lit(<<":","/","/">>)
        \o <<Star(Not({"/"}), 1, FALSE)>> \o Lit(<<"-","h","t","t","p">>) \o <<Opt(Lit(<<"s">>))>> \o Lit(<<":","/","/">>)
        \o <<Star(Not({"/"}), 1, FALSE)>> \o Lit(<<"/">>) \o <<Star(Not({"/"}), 1, FALSE)>>
        \o Lit(<<".","h","t","m","l","-">>)
        \o <<Star(Not({" ", "\n", "\t", "<", ">", "\"", "'", ")"}), 1, FALSE)>>
      pattern2 ==
        Lit(<<"h","t","t","p">>) \o <<Opt(Lit(<<"s">>))>> \o Lit(<<":","/","/">>)
        \o <<Star(Not({"/"}), 1, FALSE)>> \o Lit(<<"-">>) \o urlInList
      pattern3 ==
        <<Mark(1)>> \o urlPattern \o <<Mark(2), Star(Space, 0, FALSE)>> \o Lit(<<"(">>)
        \o urlInList \o Lit(<<")">>)
      Third(s) == ReplaceAll(s, pattern3, <<>>, 1, <<>>)
      Second(s, ms) ==
        Third(Splice(s, ms, [k \in DOMAIN ms |-> KeepLongestUrl(MatchTexts(s, ms)[k])], 1, 1))
      First(s, ms) == Splice(s, ms, [k \in DOMAIN ms |-> RepairEmbedded(MatchTexts(s, ms)[k])], 1, 1)
      Rest(s) == IF Done(s) THEN Second(s, MatchesFrom(pattern2, s, 1)) ELSE s
  IN Rest(First(formatted, MatchesFrom(pattern1, formatted, 1)))

\* $1\n\n$2 for every match of a pattern of two capture groups
BreakBetweenGroups(s, ms) ==
  Splice(s, ms, [k \in DOMAIN ms |->
                   Group(s, ms[k], 1) \o <<"\n", "\n">> \o Group(s, ms[k], 2)], 1, 1)

\* lines 1533-1541: a numbered item begins a paragraph of its own
ListItemPatterns ==
  LET html == Lit(<<".","h","t","m","l">>)
      closed == <<Star(Digit, 1, FALSE)>> \o Lit(<<")">>)
      dotted == <<Star(Digit, 1, FALSE)>> \o Lit(<<".">>)
      some == <<Star(Space, 1, FALSE)>>
      line == <<Star(Space, 1, FALSE), Star(Not({"\n"}), 1, FALSE)>>
      Two(first, between, second) ==
        <<Mark(1)>> \o first \o <<Mark(2)>> \o between \o <<Mark(3)>> \o second \o <<Mark(4)>>
  IN << Two(html, <<>>, closed), Two(html, some, closed),
        Two(html, <<>>, dotted), Two(html, some, dotted),
        Two(closed \o line, Lit(<<"\n">>), closed), Two(dotted \o line, Lit(<<"\n">>), dotted),
        Two(closed \o line, Lit(<<"\n">>), dotted), Two(dotted \o line, Lit(<<"\n">>), closed) >>

RECURSIVE BreakListItems(_, _)
BreakListItems(formatted, patterns) ==
  IF patterns = <<>> \/ ~Done(formatted) THEN formatted
  ELSE BreakListItems(BreakBetweenGroups(formatted, MatchesFrom(patterns[1], formatted, 1)),
                      Tail(patterns))

\* line 1261
FormattingError == <<"I"," ","a","p","o","l","o","g","i","z","e",","," ","b","u","t"," ","I"," ","e","n","c","o","u","n","t","e","r","e","d"," ","a","n"," ","e","r","r","o","r"," ","f","o","r","m","a","t","t","i","n","g"," ","t","h","e"," ","r","e","s","p","o","n","s","e",".">>

\* formatResponseWithLinks, lines 1257-1553, on the characters of response;
\* products holds the name and the url of each Product
FormattedResponse(response, products) ==
  LET Step9(formatted) == ReplaceLiteral(formatted, <<"\n">>, <<"<","b","r","/",">">>)
      Step8(formatted) == IF Done(formatted) THEN Step9(BreakListItems(formatted, ListItemPatterns)) ELSE formatted
      Step7(formatted) == IF Done(formatted) THEN Step8(RepairUrls(formatted)) ELSE formatted
      Step6(formatted) == IF Done(formatted) THEN Step7(FixShortLinkText(formatted)) ELSE formatted
      Step5(formatted) == IF Done(formatted) THEN Step6(FixLinkText(formatted)) ELSE formatted
      Step4(formatted) == IF Done(formatted) THEN Step5(LinkUrls(formatted)) ELSE formatted
      Step3(formatted) == IF Done(formatted) THEN Step4(CleanBrokenMarkdown(formatted)) ELSE formatted
      Step2(formatted) == IF Done(formatted) THEN Step3(ReplaceEach(formatted, CommonTermRules)) ELSE formatted
      Step1(formatted) == IF Done(formatted) THEN Step2(LinkCategories(formatted, LongestFirst(CATEGORY_URLS))) ELSE formatted
  IN IF response = <<>> THEN FormattingError
     ELSE Step1(LinkProducts(response, LongestFirst(products)))

\* lines 1204-1212: what uniqueProductsForLinks holds of a Product
Linkable(name) == [name |-> name, url |-> PageUrl(name)]

\* the products of websiteData: an empty crawl, or the catalogue
Catalogues == { <<>>, <<Linkable(AirRAM), Linkable(HT50)>> }

\* absolute URLs a completion cites: the order tracking page, the category
\* pages of CATEGORY_URLS, the product pages, and the page the comments of
\* lines 1395 and 1480 name
CitedUrls ==
  { GTECH_BASE_URL \o <<"/","t","r","a","c","k","-","m","y","-","o","r","d","e","r">>,
    GTECH_BASE_URL \o <<"/","c","o","r","d","l","e","s","s","-","p","o","w","e","r","-","t","o","o","l","s",".","h","t","m","l">>,
    GTECH_BASE_URL \o <<"/","g","a","r","d","e","n","-","t","o","o","l","s",".","h","t","m","l">>,
    GTECH_BASE_URL \o <<"/","c","o","r","d","l","e","s","s","-","v","a","c","u","u","m","-","c","l","e","a","n","e","r","s",".","h","t","m","l">>,
    GTECH_BASE_URL \o <<"/","h","a","i","r","c","a","r","e",".","h","t","m","l">>,
    PageUrl(AirRAM),
    PageUrl(HT50),
    GTECH_BASE_URL \o <<"/","c","o","r","d","l","e","s","s","-","v","a","c","u","u","m","-","c","l","e","a","n","e","r","s","/","c","o","r","d","l","e","s","s","-","w","e","t","-","a","n","d","-","d","r","y","-","v","a","c","u","u","m","s","/","o","r","c","a","-","h","a","r","d","-","f","l","o","o","r","-","c","l","e","a","n","e","r",".","h","t","m","l">> }

\* what a completion says before and after the URL
Leads == { <<>>, <<"S","e","e"," ">>, <<"T","h","e"," ","A","i","r","R","A","M",":"," ">> }
Trails == { <<>>, <<".">>, <<" ","o","n"," ","o","u","r"," ","w","e","b","s","i","t","e">> }

\* the arguments of one call: a completion that cites one URL
Formatting(lead, url, trail, products) ==
  [NoFormatting EXCEPT !.response = lead \o url \o trail, !.products = products,
                       !.lead = lead, !.url = url, !.trail = trail]

\* a server that is about to format a completion
FormatInit ==
  /\ WarmScraper
  /\ conversationContext = [sid \in {"default"} |-> NoContext]
  /\ reply = NoReply
  /\ request = NoRequest
  /\ WindowClosed
  /\ build = "current"
  /\ formatting \in { Formatting(lead, url, trail, products) :
                        lead \in Leads, url \in CitedUrls, trail \in Trails,
                        products \in Catalogues }

\* line 1216: formattedResponse = formatResponseWithLinks(aiResponse, ...)
Format ==
  /\ ~formatting.returned
  /\ formatting' = [formatting EXCEPT
                      !.formatted = FormattedResponse(formatting.response, formatting.products),
                      !.returned = TRUE]
  /\ UNCHANGED <<scraperVars, conversationContext, reply, build, clientVars, request>>

FormatNext == Format

\* the formatter on completions that cite a URL
FormatSpec == FormatInit /\ [][FormatNext]_vars

\* what the formatter makes of the text beside the URL; there may be none
Beside(text, products) ==
  IF text = <<>> THEN <<>> ELSE FormattedResponse(text, products)

\* C30: once a completion that cites a bare absolute URL is formatted, the
\* result is the formatted text before the URL, then exactly one anchor
\* whose href and whose text are the complete URL, then the formatted text
\* after the URL: the URL is never cut by an anchor put inside it, whatever
\* category keyword or product name its segments spell
CitedUrlIsOneAnchor ==
  formatting.returned =>
    formatting.formatted =
      Beside(formatting.lead, formatting.products)
      \o Anchor(formatting.url, formatting.url)
      \o Beside(formatting.trail, formatting.products)
====
